---- MODULE Spec2Model ----
(***************************************************************************)
(* The encrypted retrieval pipeline of CyborgDB (NestJS backend):          *)
(*   EncryptionService     AES-256-GCM over JSON-serialised vectors        *)
(*   DocumentChunkerService sentence chunker                               *)
(*   EmbeddingsService     windowed concurrent provider calls              *)
(*   CyborgDbService       HTTP adapter of the vector store                *)
(*   RagService            ingestDocument / retrieve                       *)
(*                                                                         *)
(* Three specifications share the module, one per part of the program:     *)
(*   SpecCipher   encryptVector / decryptVector on one vector              *)
(*   SpecIngest   one ingestDocument call, down to the provider and store  *)
(*   SpecRetrieve one retrieve call                                        *)
(*                                                                         *)
(* Strings are sequences of one-character strings, buffers are sequences   *)
(* of bytes 0..255, a base64 string is a sequence of base64 digits 0..63   *)
(* with 64 for the padding character.                                      *)
(***************************************************************************)
EXTENDS Integers, Sequences, FiniteSets, TLC

VARIABLES
    \* EncryptionService and the calls made on it (SpecCipher)
    key,            \* this.key, 32 bytes
    vector,         \* the vector handed to encryptVector
    encrypted1,     \* payload of the first encryptVector(vector), <<>> before
    encrypted2,     \* payload of the second encryptVector(vector), <<>> before
    drawnIVs,       \* what crypto.randomBytes(12) returned, call by call
    tampered,       \* [pos, delta, payload]: a payload with one byte changed
    truncated,      \* a payload cut down to its first bytes, <<>> before
    decrypted,      \* outcome of the last decryptVector call
    \* one RagService.ingestDocument call and its collaborators (SpecIngest)
    config,         \* what ConfigService.get returns, and which clients exist
    document,       \* the Document handed to ingestDocument
    pc,             \* where the call is: start, embedding, upserting, done, failed
    chunks,         \* chunks = documentChunker.chunkText(...)
    calls,          \* the embedding provider's view: every call issued, in order
    gen,            \* generateEmbeddings: [i, results, state]
    encryptedRecords, \* encryptedRecords of ingestDocument
    upsertRequests, \* bodies POSTed to /indexes/<index>/upsert, in order
    ingestResult,   \* what ingestDocument returned or threw
    vectorStore,    \* the ids of the records the vector store holds
    \* one RagService.retrieve call and its collaborators (SpecRetrieve)
    request,        \* [query, topK]: the arguments of retrieve (topK 0: not given)
    rpc,            \* where the call is: start, embedding, querying, done, failed
    queryRequests,  \* bodies POSTed to /indexes/<index>/query, in order
    queryResults,   \* what CyborgDbService.query returned
    queryCall,      \* [reply, outcome]: the store's reply and what query did with it
    retrieveResult, \* what retrieve returned or threw
    \* calls made beside the three scenarios above
    firstIngest,    \* ingestDocument called again: [ids, upsert] of the first call
    chunkCalls,     \* the chunkText calls made so far: [text, metadata, result]
    contextResults, \* the results handed to assembleContext
    context,        \* what assembleContext returned
    healthCalls,    \* the healthCheck calls made so far: [reply, result]
    keyHex,         \* configService.get('encryption.key'): [defined, s]
    constructed,    \* what new EncryptionService(configService) returned or threw
    \* MedicalRecordsService: one create, its processRecordAsync, one remove
    medicalRecordRepository, \* the rows of the medical_records table
    record,         \* the entity create built and handed to processRecordAsync
    auditLog,       \* what auditService.log was called with, in order
    createPc,       \* where create is: saving, logging, returned
    createResult,   \* what create returned
    processPc,      \* where processRecordAsync is: ingesting, saving, logging, ...
    removePc,       \* where remove is: finding, accessed, deleting, removing, ...
    removeRecord,   \* the entity remove loaded with findOne
    removeResult,   \* what remove returned or threw
    \* ChatGateway and ChatService: one chat:message or chat:stream request
    handler,        \* the event the client sent: chat:message or chat:stream
    chatPc,         \* where chat / streamChat is: retrieving, generating, ...
    generatorRequests, \* the bodies sent to the chat model, in order
    yielded,        \* what the chat model gave: chat's response, streamChat's yields
    chatResult,     \* what chat returned or threw / how streamChat ended
    emitted,        \* the events emitted to the client, in order
    disconnect      \* the client's disconnect and how far the request was then

cipherVars == <<key, vector, encrypted1, encrypted2, drawnIVs, tampered, truncated,
               decrypted>>

ingestVars == <<config, document, pc, chunks, calls, gen, encryptedRecords,
                upsertRequests, ingestResult, vectorStore>>

retrieveVars == <<request, rpc, queryRequests, queryResults, queryCall, retrieveResult>>

recordVars == <<medicalRecordRepository, record, auditLog, createPc, createResult,
                processPc, removePc, removeRecord, removeResult>>

chatVars == <<handler, chatPc, generatorRequests, yielded, chatResult, emitted, disconnect>>

otherVars == <<firstIngest, chunkCalls, contextResults, context, healthCalls,
               keyHex, constructed, recordVars, chatVars>>

vars == <<cipherVars, ingestVars, retrieveVars, otherVars>>

-----------------------------------------------------------------------------
(* Bounds *)

\* longest vector handed to encryptVector in SpecCipher
MaxVecLen == 2
\* number of distinct values crypto.randomBytes(12) is drawn from
NumIVs == 2
\* longest document content handed to ingestDocument in SpecIngest
MaxContentLen == 5
\* most matches the store answers a query with in SpecRetrieve
MaxMatches == 3
\* longest generated text handed to chunkText in SpecChunker
MaxTextLen == 4
\* most chunkText calls made in SpecChunker
MaxChunkCalls == 3
\* most healthCheck calls made in SpecHealth
MaxHealthChecks == 2

-----------------------------------------------------------------------------
(* Generic helpers *)

Abs(n) == IF n < 0 THEN -n ELSE n

RECURSIVE SeqSum(_)
SeqSum(s) == IF s = <<>> THEN 0 ELSE Head(s) + SeqSum(Tail(s))

\* Array.prototype.slice(from) / Buffer.slice(from, to) with 0-based, end-exclusive
\* indices clamped to the length, as JavaScript does.
Slice(s, from, to) ==
    LET f == IF from > Len(s) THEN Len(s) ELSE from
        t == IF to > Len(s) THEN Len(s) ELSE to
    IN IF t <= f THEN <<>> ELSE SubSeq(s, f + 1, t)

-----------------------------------------------------------------------------
(* JavaScript numbers and JSON                                             *)
(* A number is [k, t]: k = "num" is the finite number t/10 (so 0.1 is t=1, *)
(* -0.2 is t=-2, 12 is t=120); "negzero" is -0; "nan", "inf", "ninf" are     *)
(* NaN, Infinity, -Infinity.  JSON.parse can also give "null", and "other" *)
(* stands for a number with more decimals than t/10 can hold.              *)

Num(t) == [k |-> "num", t |-> t]
Special(k) == [k |-> k, t |-> 0]

FiniteNumbers == {Num(t) : t \in {1, -2}}
NonFiniteNumbers == {Special("nan"), Special("inf")}
Numbers == FiniteNumbers \cup NonFiniteNumbers \cup {Special("negzero")}

VectorsOver(S, n) == UNION {[1..m -> S] : m \in 0..n}

\* JavaScript's === on two numbers / null
StrictEquals(a, b) ==
    LET zero(x) == x.k = "negzero" \/ (x.k = "num" /\ x.t = 0)
    IN CASE a.k = "nan" \/ b.k = "nan" -> FALSE
         [] a.k = "other" \/ b.k = "other" -> FALSE
         [] zero(a) \/ zero(b) -> zero(a) /\ zero(b)
         [] OTHER -> a = b

DigitChar(d) == <<"0", "1", "2", "3", "4", "5", "6", "7", "8", "9">>[d + 1]

DigitValue(c) ==
    CASE c = "0" -> 0 [] c = "1" -> 1 [] c = "2" -> 2 [] c = "3" -> 3
      [] c = "4" -> 4 [] c = "5" -> 5 [] c = "6" -> 6 [] c = "7" -> 7
      [] c = "8" -> 8 [] c = "9" -> 9 [] OTHER -> -1

RECURSIVE NatToString(_)
NatToString(n) ==
    IF n < 10 THEN <<DigitChar(n)>>
    ELSE NatToString(n \div 10) \o <<DigitChar(n % 10)>>

\* JSON.stringify of one array element: a finite number prints as its shortest
\* decimal, -0 prints as 0, NaN and the infinities print as null.
StringifyNumber(x) ==
    CASE x.k = "num" ->
            (IF x.t < 0 THEN <<"-">> ELSE <<>>)
            \o NatToString(Abs(x.t) \div 10)
            \o (IF Abs(x.t) % 10 = 0 THEN <<>> ELSE <<".", DigitChar(Abs(x.t) % 10)>>)
      [] x.k = "negzero" -> <<"0">>
      [] OTHER -> <<"n", "u", "l", "l">>

RECURSIVE JoinStrings(_, _)
JoinStrings(parts, sep) ==
    IF parts = <<>> THEN <<>>
    ELSE IF Len(parts) = 1 THEN parts[1]
    ELSE parts[1] \o sep \o JoinStrings(Tail(parts), sep)

\* JSON.stringify(vector) for vector: number[]
JSONStringify(v) ==
    <<"[">> \o JoinStrings([i \in 1..Len(v) |-> StringifyNumber(v[i])], <<",">>) \o <<"]">>

\* String.prototype.split(sep) for a one-character separator
RECURSIVE SplitOn(_, _)
SplitOn(s, sep) ==
    IF \A i \in 1..Len(s) : s[i] # sep THEN <<s>>
    ELSE LET p == CHOOSE i \in 1..Len(s) : s[i] = sep /\ \A j \in 1..(i - 1) : s[j] # sep
         IN <<SubSeq(s, 1, p - 1)>> \o SplitOn(SubSeq(s, p + 1, Len(s)), sep)

RECURSIVE DigitsToNat(_)
DigitsToNat(ds) ==
    IF ds = <<>> THEN 0
    ELSE (10 * DigitsToNat(SubSeq(ds, 1, Len(ds) - 1))) + DigitValue(ds[Len(ds)])

AllDigits(s) == s # <<>> /\ \A i \in 1..Len(s) : DigitValue(s[i]) >= 0

\* One JSON value of the grammar the vectors use: null, or -?int(.digits)?
\* (no exponent, no white space).  [ok |-> FALSE] is a SyntaxError.
ParseJSONValue(tok) ==
    LET neg == tok # <<>> /\ tok[1] = "-"
        body == IF neg THEN Tail(tok) ELSE tok
        parts == SplitOn(body, ".")
        ip == parts[1]
        fp == IF Len(parts) = 2 THEN parts[2] ELSE <<>>
        wellFormed ==
            /\ Len(parts) \in {1, 2}
            /\ AllDigits(ip)
            /\ (Len(ip) > 1 => ip[1] # "0")
            /\ (Len(parts) = 2 => AllDigits(fp))
        mag == (10 * DigitsToNat(ip)) + (IF fp = <<>> THEN 0 ELSE DigitValue(fp[1]))
    IN IF tok = <<"n", "u", "l", "l">> THEN [ok |-> TRUE, value |-> Special("null")]
       ELSE IF ~wellFormed THEN [ok |-> FALSE, value |-> Special("null")]
       ELSE IF Len(fp) > 1 /\ (\E i \in 2..Len(fp) : fp[i] # "0")
            THEN [ok |-> TRUE, value |-> Special("other")]
       ELSE IF neg /\ mag = 0 THEN [ok |-> TRUE, value |-> Special("negzero")]
       ELSE [ok |-> TRUE, value |-> Num(IF neg THEN -mag ELSE mag)]

\* JSON.parse(text): [kind |-> "array", value |-> <<...>>] for an array,
\* "scalar" for a bare number or null (JSON.parse returns it, no error),
\* "error" for a SyntaxError.
JSONParse(s) ==
    IF Len(s) >= 2 /\ s[1] = "[" /\ s[Len(s)] = "]"
    THEN LET inner == SubSeq(s, 2, Len(s) - 1)
             toks == IF inner = <<>> THEN <<>> ELSE SplitOn(inner, ",")
             vals == [i \in 1..Len(toks) |-> ParseJSONValue(toks[i])]
         IN IF \A i \in 1..Len(toks) : vals[i].ok
            THEN [kind |-> "array", value |-> [i \in 1..Len(toks) |-> vals[i].value]]
            ELSE [kind |-> "error", value |-> <<>>]
    ELSE IF ParseJSONValue(s).ok
         THEN [kind |-> "scalar", value |-> <<ParseJSONValue(s).value>>]
         ELSE [kind |-> "error", value |-> <<>>]

\* Buffer.from(string): the UTF-8 bytes (all characters here are ASCII)
CharCode(c) ==
    CASE c = "[" -> 91 [] c = "]" -> 93 [] c = "," -> 44 [] c = "-" -> 45
      [] c = "." -> 46 [] c = "n" -> 110 [] c = "u" -> 117 [] c = "l" -> 108
      [] OTHER -> 48 + DigitValue(c)

\* buffer.toString(): the character of a byte; "?" is any character outside
\* the JSON alphabet above
CodeChar(b) ==
    CASE b = 91 -> "[" [] b = 93 -> "]" [] b = 44 -> "," [] b = 45 -> "-"
      [] b = 46 -> "." [] b = 110 -> "n" [] b = 117 -> "u" [] b = 108 -> "l"
      [] b \in 48..57 -> DigitChar(b - 48)
      [] OTHER -> "?"

BufferFromString(s) == [i \in 1..Len(s) |-> CharCode(s[i])]
BufferToString(b) == [i \in 1..Len(b) |-> CodeChar(b[i])]

-----------------------------------------------------------------------------
(* base64 *)

Base64Pad == 64

\* buffer.toString('base64')
RECURSIVE Base64Encode(_)
Base64Encode(b) ==
    IF Len(b) = 0 THEN <<>>
    ELSE IF Len(b) = 1
    THEN <<b[1] \div 4, (b[1] % 4) * 16, Base64Pad, Base64Pad>>
    ELSE IF Len(b) = 2
    THEN <<b[1] \div 4, ((b[1] % 4) * 16) + (b[2] \div 16), (b[2] % 16) * 4, Base64Pad>>
    ELSE <<b[1] \div 4, ((b[1] % 4) * 16) + (b[2] \div 16),
           ((b[2] % 16) * 4) + (b[3] \div 64), b[3] % 64>>
         \o Base64Encode(SubSeq(b, 4, Len(b)))

RECURSIVE Base64DecodeDigits(_)
Base64DecodeDigits(d) ==
    IF Len(d) <= 1 THEN <<>>
    ELSE IF Len(d) = 2 THEN <<(d[1] * 4) + (d[2] \div 16)>>
    ELSE IF Len(d) = 3
    THEN <<(d[1] * 4) + (d[2] \div 16), ((d[2] % 16) * 16) + (d[3] \div 4)>>
    ELSE <<(d[1] * 4) + (d[2] \div 16), ((d[2] % 16) * 16) + (d[3] \div 4),
           ((d[3] % 4) * 64) + d[4]>>
         \o Base64DecodeDigits(SubSeq(d, 5, Len(d)))

\* Buffer.from(string, 'base64'): decoding stops at the first padding character
Base64Decode(s) ==
    LET stop == IF \E i \in 1..Len(s) : s[i] = Base64Pad
                THEN (CHOOSE i \in 1..Len(s) :
                        s[i] = Base64Pad /\ \A j \in 1..(i - 1) : s[j] # Base64Pad) - 1
                ELSE Len(s)
    IN Base64DecodeDigits(SubSeq(s, 1, stop))

-----------------------------------------------------------------------------
(* AES-256-GCM of node:crypto, as an ideal authenticated cipher:           *)
(* a keystream that depends on key, IV and position, XORed on the          *)
(* plaintext, and a 16-byte tag that depends on key, IV and ciphertext.    *)

IVLength == 12
AuthTagLength == 16
KeyLength == 32

RECURSIVE Xor(_, _)
Xor(a, b) ==
    IF a = 0 THEN b
    ELSE IF b = 0 THEN a
    ELSE ((((a % 2) + (b % 2)) % 2)) + (2 * Xor(a \div 2, b \div 2))

Weighted(s, w) == SeqSum([j \in 1..Len(s) |-> ((2 * ((w * j) % 128)) + 1) * s[j]])

\* cipher.update(data) + cipher.final(), and decipher.update(data): counter mode,
\* byte i of the keystream depends on the key, the IV and i
GcmCrypt(k, iv, data) ==
    LET seed == (Weighted(k, 3) + Weighted(iv, 5) + 41) % 256
    IN [i \in 1..Len(data) |-> Xor(data[i], (seed + (97 * i)) % 256)]

\* cipher.getAuthTag()
GcmTag(k, iv, ct) ==
    LET kk == Weighted(k, 1) % 256
        data == iv \o ct
    IN [b \in 1..AuthTagLength |->
           ((b * kk) + Weighted(data, b) + (7 * Len(ct)) + b) % 256]

\* crypto.randomBytes(12): any of NumIVs byte strings
RandomIVs == {[j \in 1..IVLength |-> ((85 * n) + (j * (n + 1))) % 256] : n \in 0..(NumIVs - 1)}

\* the key of the spec's scenario, 64 hex zeros
ValidKeys == {[j \in 1..KeyLength |-> 0]}

\* value of a hexadecimal digit, -1 for any other character
HexValue(c) ==
    IF DigitValue(c) >= 0 THEN DigitValue(c)
    ELSE CASE c \in {"a", "A"} -> 10 [] c \in {"b", "B"} -> 11 [] c \in {"c", "C"} -> 12
           [] c \in {"d", "D"} -> 13 [] c \in {"e", "E"} -> 14 [] c \in {"f", "F"} -> 15
           [] OTHER -> -1

\* Buffer.from(s, 'hex'): one byte per pair of hex digits, cut at the first pair
\* that is not two hex digits; a last single character is dropped
RECURSIVE HexDecode(_)
HexDecode(s) ==
    IF Len(s) < 2 \/ HexValue(s[1]) < 0 \/ HexValue(s[2]) < 0 THEN <<>>
    ELSE <<(16 * HexValue(s[1])) + HexValue(s[2])>> \o HexDecode(SubSeq(s, 3, Len(s)))

-----------------------------------------------------------------------------
(* EncryptionService *)

\* The body of encryptVector with the IV the cipher is created with
encryptWith(k, iv, v) ==
    LET vectorBuffer == BufferFromString(JSONStringify(v))
        ct == GcmCrypt(k, iv, vectorBuffer)
        authTag == GcmTag(k, iv, ct)
        combined == iv \o authTag \o ct
    IN Base64Encode(combined)

\* mutant: the cipher is created with a fixed IV instead of the random one
encryptVector_fixedIV(k, iv, v) == encryptWith(k, [j \in 1..IVLength |-> 0], v)

\* encryptVector(vector) with the IV that randomBytes returned: the payload string
encryptVector(k, iv, v) == encryptWith(k, iv, v)

\* no tampered payload yet / the values XORed on a byte to change it
NotTampered == [pos |-> 0, delta |-> 0, payload |-> <<>>]
TamperDeltas == {1, 255}

\* outcome of a call: not returned yet, returned value, or the Error thrown
NoResult == [status |-> "none", value |-> <<>>, error |-> ""]
Returned(v) == [status |-> "ok", value |-> v, error |-> ""]
Threw(msg) == [status |-> "error", value |-> <<>>, error |-> msg]

\* keyHex.length !== 64
KeyHexLength == 64

\* the constructor: it throws on a missing (undefined or empty) keyHex and on a
\* keyHex that is not 64 characters long, and otherwise keeps the decoded bytes
EncryptionService(hex) ==
    IF ~hex.defined \/ hex.s = <<>> \/ Len(hex.s) # KeyHexLength
    THEN Threw("Encryption key must be 256 bits (64 hex characters).")
    ELSE Returned(HexDecode(hex.s))

\* The body of decryptVector: ctStart is the offset the ciphertext is sliced
\* from, verify is whether decipher.final() checks the tag set by setAuthTag.
decryptWith(k, encryptedData, ctStart, verify) ==
    LET combined == Base64Decode(encryptedData)
        iv == Slice(combined, 0, 12)
        authTag == Slice(combined, 12, 28)
        ct == Slice(combined, ctStart, Len(combined))
        parsed == JSONParse(BufferToString(GcmCrypt(k, iv, ct)))
    IN IF Len(iv) = 0
       THEN Threw("Decryption failed: Invalid initialization vector")
       ELSE IF Len(authTag) \notin {4, 8, 12, 13, 14, 15, 16}
       THEN Threw("Decryption failed: Invalid authentication tag length")
       ELSE IF verify /\ authTag # GcmTag(k, iv, ct)
       THEN Threw("Decryption failed: Unsupported state or unable to authenticate data")
       ELSE IF parsed.kind = "error"
       THEN Threw("Decryption failed: Unexpected token in JSON")
       ELSE [status |-> "ok", value |-> parsed.value, error |-> ""]

\* mutant: the ciphertext is sliced one byte late
decryptVector_sliceOffByOne(k, encryptedData) == decryptWith(k, encryptedData, 29, TRUE)

\* mutant: the authentication tag is never verified
decryptVector_noAuthCheck(k, encryptedData) == decryptWith(k, encryptedData, 28, FALSE)

\* decryptVector(encryptedData): [status |-> "ok", value] or the Error thrown
decryptVector(k, encryptedData) == decryptWith(k, encryptedData, 28, TRUE)

-----------------------------------------------------------------------------
(* DocumentChunkerService *)

Whitespace == {" "}
SentenceEnd == {".", "!", "?"}

\* String.prototype.split on any one character of seps
RECURSIVE SplitOnAny(_, _)
SplitOnAny(s, seps) ==
    IF \A i \in 1..Len(s) : s[i] \notin seps THEN <<s>>
    ELSE LET p == CHOOSE i \in 1..Len(s) :
                    s[i] \in seps /\ \A j \in 1..(i - 1) : s[j] \notin seps
         IN <<SubSeq(s, 1, p - 1)>> \o SplitOnAny(SubSeq(s, p + 1, Len(s)), seps)

\* String.prototype.trim
RECURSIVE Trim(_)
Trim(s) ==
    IF s = <<>> THEN s
    ELSE IF s[1] \in Whitespace THEN Trim(Tail(s))
    ELSE IF s[Len(s)] \in Whitespace THEN Trim(SubSeq(s, 1, Len(s) - 1))
    ELSE s

\* Array.prototype.filter
RECURSIVE NonEmpty(_)
NonEmpty(ss) ==
    IF ss = <<>> THEN <<>>
    ELSE (IF Head(ss) = <<>> THEN <<>> ELSE <<Head(ss)>>) \o NonEmpty(Tail(ss))

\* splitIntoSentences: text.split(/[.!?]+/).map(trim).filter(non-empty); the empty
\* pieces between adjacent terminators are filtered out like any other
splitIntoSentences(text) ==
    LET pieces == SplitOnAny(text, SentenceEnd)
    IN NonEmpty([i \in 1..Len(pieces) |-> Trim(pieces[i])])

\* Array.prototype.slice(start) with a start that may be negative
SliceFrom(a, start) ==
    LET from == IF start < 0
                THEN (IF Len(a) + start < 0 THEN 0 ELSE Len(a) + start)
                ELSE (IF start > Len(a) THEN Len(a) ELSE start)
    IN SubSeq(a, from + 1, Len(a))

\* the loop of chunkText over the sentences left, with currentChunk and the
\* chunks pushed so far (chunkIndex is their number)
RECURSIVE chunkLoop(_, _, _, _, _, _)
chunkLoop(sentences, currentChunk, out, metadata, chunkSize, chunkOverlap) ==
    IF sentences = <<>>
    THEN IF Len(Trim(currentChunk)) > 0
         THEN Append(out, [text |-> Trim(currentChunk), index |-> Len(out),
                           metadata |-> metadata])
         ELSE out
    ELSE LET sentence == Head(sentences)
             close == /\ Len(currentChunk) + Len(sentence) > chunkSize
                      /\ Len(currentChunk) > 0
             words == SplitOn(currentChunk, " ")
             overlapWords == SliceFrom(words, 0 - (chunkOverlap \div 5))
             seeded == IF close THEN JoinStrings(overlapWords, <<" ">>) \o <<" ">>
                       ELSE currentChunk
             pushed == IF close
                       THEN Append(out, [text |-> Trim(currentChunk), index |-> Len(out),
                                         metadata |-> metadata])
                       ELSE out
         IN chunkLoop(Tail(sentences), seeded \o sentence \o <<" ">>, pushed,
                      metadata, chunkSize, chunkOverlap)

\* mutant: chunkIndex is a field of the service and is not reset between calls
chunkText_indexKept(text, metadata, chunkSize, chunkOverlap) ==
    LET fresh == chunkLoop(splitIntoSentences(text), <<>>, <<>>, metadata,
                           chunkSize, chunkOverlap)
        before == SeqSum([c \in 1..Len(chunkCalls) |-> Len(chunkCalls[c].result)])
    IN [i \in 1..Len(fresh) |-> [fresh[i] EXCEPT !.index = @ + before]]

\* chunkText(text, metadata) under the configured rag.chunkSize, rag.chunkOverlap
chunkText(text, metadata, chunkSize, chunkOverlap) ==
    chunkLoop(splitIntoSentences(text), <<>>, <<>>, metadata, chunkSize, chunkOverlap)

-----------------------------------------------------------------------------
(* EmbeddingsService *)

\* An embedding is [defined, v]: defined = FALSE is a response without an
\* embedding field (EmbeddingResult.embedding is undefined)
Embedding(v) == [defined |-> TRUE, v |-> v]
UndefinedEmbedding == [defined |-> FALSE, v |-> <<>>]

RECURSIVE TextCode(_)
TextCode(text) ==
    IF text = <<>> THEN 1
    ELSE (3 * TextCode(Tail(text)))
         + (CASE Head(text) = "a" -> 0 [] Head(text) = " " -> 1 [] OTHER -> 2)

\* the vector the provider's model gives a text: one vector per text
ModelEmbedding(text) == Embedding(<<Num(TextCode(text)), Num(-2)>>)

\* getEmbeddingDimension(): the length the configured model's name stands for
\* (1536, 3072 or 768 in the code; the vectors here have 2 components)
getEmbeddingDimension == 2

\* the vector of a model whose dimension is not the one getEmbeddingDimension()
\* looks its name up to
OtherSizeEmbedding(text) == Embedding(<<Num(TextCode(text))>>)

\* what a provider call on text can resolve with, the provider running a model of
\* config.modelDimension components
ProviderResponses(text) ==
    {IF config.modelDimension = getEmbeddingDimension
     THEN ModelEmbedding(text) ELSE OtherSizeEmbedding(text),
     UndefinedEmbedding}

\* mutant: the batch is everything that is left
Batch_allRemaining(n, i, maxConcurrent) == {j \in 1..n : i < j}

\* batch = texts.slice(i, i + maxConcurrent): the 1-based indexes of the batch
Batch(n, i, maxConcurrent) ==
    {j \in 1..n : i < j /\ j <= i + maxConcurrent}

\* batch.map((text) => this.generateEmbedding(text)): one provider call per text
\* of the batch, issued in input order
IssueBatch(cs, texts, batch) ==
    LET first == IF batch = {} THEN 1 ELSE CHOOSE j \in batch : \A k \in batch : j <= k
    IN cs \o [m \in 1..Cardinality(batch) |->
                [index |-> first + m - 1, text |-> texts[first + m - 1],
                 status |-> "inflight", response |-> UndefinedEmbedding,
                 settledAt |-> 0]]

CallOf(cs, j) == cs[CHOOSE c \in 1..Len(cs) : cs[c].index = j]
InFlight(cs) == {c \in 1..Len(cs) : cs[c].status = "inflight"}
Settled(cs) == {c \in 1..Len(cs) : cs[c].status # "inflight"}

\* the increasing enumeration of a finite set of integers
RECURSIVE SortedSeq(_)
SortedSeq(S) ==
    IF S = {} THEN <<>>
    ELSE LET lo == CHOOSE x \in S : \A y \in S : x <= y
         IN <<lo>> \o SortedSeq(S \ {lo})

\* mutant: the values are collected in the order the calls completed
PromiseAll_completionOrder(cs, batch) ==
    LET at == {CallOf(cs, j).settledAt : j \in batch}
        order == SortedSeq(at)
    IN IF \E j \in batch : CallOf(cs, j).status = "failed"
       THEN [state |-> "rejected", values |-> <<>>]
       ELSE IF \E j \in batch : CallOf(cs, j).status = "inflight"
       THEN [state |-> "pending", values |-> <<>>]
       ELSE [state |-> "fulfilled",
             values |-> [m \in 1..Len(order) |->
                [embedding |->
                    CallOf(cs, CHOOSE j \in batch :
                                  CallOf(cs, j).settledAt = order[m]).response]]]

\* mutant: a failed call is dropped instead of rejecting the batch
PromiseAll_dropFailed(cs, batch) ==
    LET good == SortedSeq({j \in batch : CallOf(cs, j).status = "ok"})
    IN IF \E j \in batch : CallOf(cs, j).status = "inflight"
       THEN [state |-> "pending", values |-> <<>>]
       ELSE [state |-> "fulfilled",
             values |-> [m \in 1..Len(good) |->
                            [embedding |-> CallOf(cs, good[m]).response]]]

\* Promise.all over the batch's calls: rejected as soon as one call failed,
\* fulfilled once all resolved, with the values in the order of the batch
PromiseAll(cs, batch) ==
    LET order == SortedSeq(batch)
    IN IF \E j \in batch : CallOf(cs, j).status = "failed"
       THEN [state |-> "rejected", values |-> <<>>]
       ELSE IF \E j \in batch : CallOf(cs, j).status = "inflight"
       THEN [state |-> "pending", values |-> <<>>]
       ELSE [state |-> "fulfilled",
             values |-> [m \in 1..Len(order) |->
                            [embedding |-> CallOf(cs, order[m]).response]]]

-----------------------------------------------------------------------------
(* CyborgDbService.upsert and RagService.ingestDocument *)

\* { ...base, ...extra }: the keys of extra win
Spread(base, extra) ==
    [k \in DOMAIN base \cup DOMAIN extra |->
        IF k \in DOMAIN extra THEN extra[k] ELSE base[k]]

\* mutant: the identifier also counts the upserts made so far
ChunkId_perUpsert(id, i) ==
    id \o "_chunk_" \o ToString(i + (10 * Len(upsertRequests)))

\* `${document.id}_chunk_${i}`
ChunkId(id, i) == id \o "_chunk_" \o ToString(i)

\* the record ingestDocument builds for chunk i (0-based), given the payload
\* encryptVector returned for its embedding
VectorRecord(doc, chunk, i, embedding, encryptedVector) ==
    [id |-> ChunkId(doc.id, i),
     vector |-> embedding,
     metadata |-> Spread([documentId |-> doc.id,
                          chunkIndex |-> i,
                          chunkText |-> chunk.text,
                          encrypted |-> TRUE,
                          encryptedData |-> encryptedVector],
                         doc.metadata)]

\* encryptVector throws on an embedding that is undefined (Buffer.from(undefined))
EncryptThrows(results, i) == i > Len(results) \/ ~results[i].embedding.defined

\* mutant: a chunk whose encryption throws is skipped and the rest is stored
encryptRecords_skipFailed(doc, cks, results, k, ivs) ==
    LET good == SortedSeq({i \in 1..Len(cks) : ~EncryptThrows(results, i)})
    IN [ok |-> TRUE,
        records |-> [m \in 1..Len(good) |->
            VectorRecord(doc, cks[good[m]], good[m] - 1, results[good[m]].embedding.v,
                         encryptVector(k, ivs[good[m]], results[good[m]].embedding.v))]]

\* the loop of step 3 over all chunks: the records, or the failure of the first
\* encryptVector call that throws (everything built before it is dropped)
encryptRecords(doc, cks, results, k, ivs) ==
    IF \E i \in 1..Len(cks) : EncryptThrows(results, i)
    THEN [ok |-> FALSE, records |-> <<>>]
    ELSE [ok |-> TRUE,
          records |-> [i \in 1..Len(cks) |->
              VectorRecord(doc, cks[i], i - 1, results[i].embedding.v,
                           encryptVector(k, ivs[i], results[i].embedding.v))]]

\* the body CyborgDbService.upsert posts
UpsertBody(records) ==
    [vectors |-> [i \in 1..Len(records) |->
        [id |-> records[i].id, values |-> records[i].vector,
         metadata |-> records[i].metadata]]]

IngestFailed(msg) ==
    /\ pc' = "failed"
    /\ ingestResult' = Threw("Failed to ingest document: " \o msg)

\* steps 3 and 4 of ingestDocument, which run without suspension once
\* generateEmbeddings has returned results for the chunks cks
EncryptAndUpsert(cks, results) ==
    \E ivs \in [1..Len(cks) -> RandomIVs] :
        LET enc == encryptRecords(document, cks, results, key, ivs)
        IN IF ~enc.ok
           THEN /\ IngestFailed("Encryption failed")
                /\ UNCHANGED <<encryptedRecords, upsertRequests>>
           ELSE /\ encryptedRecords' = enc.records
                /\ IF config.storeClient
                   THEN /\ upsertRequests' = Append(upsertRequests, UpsertBody(enc.records))
                        /\ pc' = "upserting"
                        /\ UNCHANGED ingestResult
                   ELSE /\ IngestFailed("Failed to upsert vectors")
                        /\ UNCHANGED upsertRequests

Texts(cks) == [i \in 1..Len(cks) |-> cks[i].text]

\* generateEmbeddings after the provider events that gave the calls cs: the
\* await on Promise.all of the current batch, and everything that follows it
\* without suspension
ContinueEmbeddings(cs) ==
    LET n == Len(chunks)
        p == PromiseAll(cs, Batch(n, gen.i, config.maxConcurrent))
        next == gen.i + config.maxConcurrent
    IN CASE p.state = "pending" ->
              /\ calls' = cs
              /\ UNCHANGED <<gen, pc, ingestResult, encryptedRecords, upsertRequests>>
         [] p.state = "rejected" ->
              /\ calls' = cs
              /\ gen' = [gen EXCEPT !.state = "rejected"]
              /\ IngestFailed("embedding failed")
              /\ UNCHANGED <<encryptedRecords, upsertRequests>>
         [] OTHER ->
              IF next < n
              THEN /\ calls' = IssueBatch(cs, Texts(chunks),
                                          Batch(n, next, config.maxConcurrent))
                   /\ gen' = [i |-> next, results |-> gen.results \o p.values,
                              state |-> "running"]
                   /\ UNCHANGED <<pc, ingestResult, encryptedRecords, upsertRequests>>
              ELSE /\ calls' = cs
                   /\ gen' = [i |-> next, results |-> gen.results \o p.values,
                              state |-> "resolved"]
                   /\ EncryptAndUpsert(chunks, gen.results \o p.values)

-----------------------------------------------------------------------------
(* SpecIngest: one ingestDocument call *)

Alphabet == {"a", "."}
Contents == UNION {[1..m -> Alphabet] : m \in 0..MaxContentLen}
DocMetadatas == {<<>>, [patientId |-> "P12345"]}

\* ConfigService values (configuration.ts) and the clients the constructors made:
\* modelDimension is the length of the vectors the configured model gives,
\* providerReady is FALSE for the OpenAI provider without an API key,
\* storeClient is FALSE for CyborgDbService without apiUrl / apiKey.
\* similarityThreshold is in hundredths, as the scores are.
DefaultConfig ==
    [chunkSize |-> 500, chunkOverlap |-> 50, maxConcurrent |-> 10,
     maxContextChunks |-> 5, similarityThreshold |-> 70,
     modelDimension |-> 2, providerReady |-> TRUE, storeClient |-> TRUE]

Configs ==
    [chunkSize : {2}, chunkOverlap : {5}, maxConcurrent : {1, 2},
     maxContextChunks : {5}, similarityThreshold : {70},
     modelDimension : {1, 2}, providerReady : BOOLEAN, storeClient : BOOLEAN]

\* the EncryptionService was constructed from 64 hex zeros
ConstructedIdle ==
    /\ keyHex = [defined |-> TRUE, s |-> [j \in 1..64 |-> "0"]]
    /\ constructed = Returned([j \in 1..KeyLength |-> 0])

\* a column that is NULL, and one that holds a list of ids
Null == [defined |-> FALSE, ids |-> <<>>]
IdList(ids) == [defined |-> TRUE, ids |-> ids]

\* no MedicalRecordsService call was made
RecordsIdle ==
    /\ medicalRecordRepository = <<>>
    /\ record = [id |-> "", isEncrypted |-> FALSE, encryptedChunks |-> Null]
    /\ auditLog = <<>>
    /\ createPc = "idle"
    /\ createResult = NoResult
    /\ processPc = "idle"
    /\ removePc = "idle"
    /\ removeRecord = [id |-> "", isEncrypted |-> FALSE, encryptedChunks |-> Null]
    /\ removeResult = NoResult

\* the client is connected
Connected == [happened |-> FALSE, queries |-> 0, generations |-> 0, yields |-> 0]

\* no chat request was made
ChatIdle ==
    /\ handler = "none"
    /\ chatPc = "idle"
    /\ generatorRequests = <<>>
    /\ yielded = <<>>
    /\ chatResult = NoResult
    /\ emitted = <<>>
    /\ disconnect = Connected

\* nothing of the other calls has happened
OtherIdle ==
    /\ firstIngest = NoResult
    /\ chunkCalls = <<>>
    /\ contextResults = <<>>
    /\ context = NoResult
    /\ healthCalls = <<>>
    /\ ConstructedIdle
    /\ RecordsIdle
    /\ ChatIdle

RetrieveIdle ==
    /\ request = [query |-> <<>>, topK |-> 0]
    /\ rpc = "idle"
    /\ queryRequests = <<>>
    /\ queryResults = <<>>
    /\ queryCall = [reply |-> "none", outcome |-> NoResult]
    /\ retrieveResult = NoResult

IngestIdle ==
    /\ config = DefaultConfig
    /\ document = [id |-> "", hasContent |-> TRUE, content |-> <<>>, metadata |-> <<>>]
    /\ pc = "idle"
    /\ chunks = <<>>
    /\ calls = <<>>
    /\ gen = [i |-> 0, results |-> <<>>, state |-> "idle"]
    /\ encryptedRecords = <<>>
    /\ upsertRequests = <<>>
    /\ ingestResult = NoResult
    /\ vectorStore = {}

CipherIdle ==
    /\ key \in ValidKeys
    /\ vector = <<>>
    /\ encrypted1 = <<>>
    /\ encrypted2 = <<>>
    /\ drawnIVs = <<>>
    /\ tampered = NotTampered
    /\ truncated = <<>>
    /\ decrypted = [of |-> "none", result |-> NoResult]

\* hasContent FALSE: a document whose content is undefined (not a string)
Documents ==
    [id : {"rec1"}, hasContent : {TRUE}, content : Contents, metadata : DocMetadatas]
    \cup [id : {"rec1"}, hasContent : {FALSE}, content : {<<>>},
          metadata : DocMetadatas]

InitIngest ==
    /\ CipherIdle
    /\ config \in Configs
    /\ document \in Documents
    /\ pc = "start"
    /\ chunks = <<>>
    /\ calls = <<>>
    /\ gen = [i |-> 0, results |-> <<>>, state |-> "idle"]
    /\ encryptedRecords = <<>>
    /\ upsertRequests = <<>>
    /\ ingestResult = NoResult
    /\ vectorStore = {}
    /\ RetrieveIdle
    /\ OtherIdle

\* ingestDocument(document) up to its first suspension: chunkText, then
\* generateEmbeddings issues the first batch (or returns at once for no text)
ingestDocument ==
    /\ pc = "start"
    /\ LET cks == chunkText(document.content, document.metadata,
                            config.chunkSize, config.chunkOverlap)
           n == Len(cks)
       IN IF ~document.hasContent
          THEN \* text.split throws inside chunkText
               /\ IngestFailed("Cannot read properties of undefined (reading 'split')")
               /\ UNCHANGED <<chunks, calls, gen, encryptedRecords, upsertRequests>>
          ELSE /\ chunks' = cks
               /\ IF n = 0
                  THEN /\ gen' = [i |-> 0, results |-> <<>>, state |-> "resolved"]
                       /\ calls' = calls
                       /\ EncryptAndUpsert(cks, <<>>)
                  ELSE IF ~config.providerReady
                  THEN /\ gen' = [i |-> 0, results |-> <<>>, state |-> "rejected"]
                       /\ calls' = calls
                       /\ IngestFailed("OpenAI embedding failed: OpenAI client not initialized")
                       /\ UNCHANGED <<encryptedRecords, upsertRequests>>
                  ELSE /\ gen' = [i |-> 0, results |-> <<>>, state |-> "running"]
                       /\ calls' = IssueBatch(calls, Texts(cks),
                                              Batch(n, 0, config.maxConcurrent))
                       /\ pc' = "embedding"
                       /\ UNCHANGED <<ingestResult, encryptedRecords, upsertRequests>>

\* a caller calls ingestDocument(document)
IngestDocument ==
    /\ ingestDocument
    /\ UNCHANGED <<otherVars, cipherVars, retrieveVars, config, document, vectorStore>>

Settle(c, status, response) ==
    [calls EXCEPT ![c] = [@ EXCEPT !.status = status, !.response = response,
                                   !.settledAt = Cardinality(Settled(calls)) + 1]]

\* a provider call returns an embedding (or a body without one)
ProviderResolves ==
    /\ \E c \in InFlight(calls) : \E r \in ProviderResponses(calls[c].text) :
        IF pc = "embedding"
        THEN ContinueEmbeddings(Settle(c, "ok", r))
        ELSE /\ calls' = Settle(c, "ok", r)
             /\ UNCHANGED <<gen, pc, ingestResult, encryptedRecords, upsertRequests>>
    /\ UNCHANGED <<otherVars, cipherVars, retrieveVars, config, document, vectorStore,
                   chunks>>

\* a provider call fails: generateOpenAIEmbedding / generateOllamaEmbedding throw
ProviderRejects ==
    /\ \E c \in InFlight(calls) :
        IF pc = "embedding"
        THEN ContinueEmbeddings(Settle(c, "failed", UndefinedEmbedding))
        ELSE /\ calls' = Settle(c, "failed", UndefinedEmbedding)
             /\ UNCHANGED <<gen, pc, ingestResult, encryptedRecords, upsertRequests>>
    /\ UNCHANGED <<otherVars, cipherVars, retrieveVars, config, document, vectorStore,
                   chunks>>

\* the store acknowledges the upsert: ingestDocument returns the record ids
StoreAcknowledges ==
    /\ pc = "upserting"
    /\ pc' = "done"
    /\ ingestResult' = Returned([i \in 1..Len(encryptedRecords) |-> encryptedRecords[i].id])
    /\ vectorStore' = vectorStore \cup {encryptedRecords[i].id : i \in 1..Len(encryptedRecords)}
    /\ UNCHANGED <<otherVars, cipherVars, retrieveVars, config, document, chunks, calls, gen,
                   encryptedRecords, upsertRequests>>

\* the upsert request fails (timeout, transport, non-2xx): upsert throws
StoreFails ==
    /\ pc = "upserting"
    /\ IngestFailed("Failed to upsert vectors")
    /\ UNCHANGED <<otherVars, cipherVars, retrieveVars, config, document, vectorStore,
                   chunks, calls, gen, encryptedRecords, upsertRequests>>

NextIngest ==
    \/ IngestDocument
    \/ ProviderResolves
    \/ ProviderRejects
    \/ StoreAcknowledges
    \/ StoreFails

SpecIngest == InitIngest /\ [][NextIngest]_vars

-----------------------------------------------------------------------------
(* SpecMetadata: one ingestDocument call on a document with caller metadata *)

\* document.metadata as callers give it: fields of their own, and fields named
\* like the ones ingestDocument writes
CallerMetadatas ==
    {[patientId |-> "P12345"],
     [patientId |-> "P12345", documentId |-> "rec2"],
     [chunkText |-> <<"z">>, encryptedData |-> <<"z">>]}

InitMetadata ==
    /\ CipherIdle
    /\ config \in {c \in Configs : /\ c.maxConcurrent = 2
                                    /\ c.modelDimension = getEmbeddingDimension
                                    /\ c.providerReady
                                    /\ c.storeClient}
    /\ document \in [id : {"rec1"}, hasContent : {TRUE}, content : Contents,
                      metadata : CallerMetadatas]
    /\ pc = "start"
    /\ chunks = <<>>
    /\ calls = <<>>
    /\ gen = [i |-> 0, results |-> <<>>, state |-> "idle"]
    /\ encryptedRecords = <<>>
    /\ upsertRequests = <<>>
    /\ ingestResult = NoResult
    /\ vectorStore = {}
    /\ RetrieveIdle
    /\ OtherIdle

SpecMetadata == InitMetadata /\ [][NextIngest]_vars

-----------------------------------------------------------------------------
(* SpecRecords: MedicalRecordsService.create, the processRecordAsync it starts,
   and a remove of the created record *)

\* Repository.save(entity): the row with the entity's id is updated, and inserted
\* when the table has no such row
Save(rows, entity) ==
    IF \E r \in 1..Len(rows) : rows[r].id = entity.id
    THEN [r \in 1..Len(rows) |-> IF rows[r].id = entity.id THEN entity ELSE rows[r]]
    ELSE Append(rows, entity)

\* Repository.remove(entity)
RECURSIVE Remove(_, _)
Remove(rows, entity) ==
    IF rows = <<>> THEN <<>>
    ELSE (IF Head(rows).id = entity.id THEN <<>> ELSE <<Head(rows)>>)
         \o Remove(Tail(rows), entity)

\* auditService.log({action, ..., details})
AuditEntry(action, resourceId, chunkCount) ==
    [action |-> action, resourceId |-> resourceId, chunkCount |-> chunkCount]

\* mutant: the record is marked and saved whether ingestDocument returned or threw
processRecordAfterIngest_saveAnyway(entity, outcome) ==
    [record |-> [entity EXCEPT !.encryptedChunks = IdList(outcome.value),
                               !.isEncrypted = TRUE],
     save |-> TRUE]

\* mutant: the record is marked encrypted, the ids are not kept
processRecordAfterIngest_flagOnly(entity, outcome) ==
    IF outcome.status = "ok"
    THEN [record |-> [entity EXCEPT !.isEncrypted = TRUE], save |-> TRUE]
    ELSE [record |-> entity, save |-> FALSE]

\* processRecordAsync once ingestDocument settled: the try block goes on to assign
\* the ids and save, the catch block only writes to the console
processRecordAfterIngest(entity, outcome) ==
    IF outcome.status = "ok"
    THEN [record |-> [entity EXCEPT !.encryptedChunks = IdList(outcome.value),
                                    !.isEncrypted = TRUE],
          save |-> TRUE]
    ELSE [record |-> entity, save |-> FALSE]

\* the content of the records created
RecordContents == {c \in Contents : Len(c) <= 3}

InitRecords ==
    /\ CipherIdle
    /\ config \in {c \in Configs : /\ c.maxConcurrent = 2
                                    /\ c.modelDimension = getEmbeddingDimension
                                    /\ c.storeClient}
    /\ document \in [id : {"rec1"}, hasContent : {TRUE}, content : RecordContents,
                      metadata : {[patientId |-> "P12345"]}]
    /\ pc = "start"
    /\ chunks = <<>>
    /\ calls = <<>>
    /\ gen = [i |-> 0, results |-> <<>>, state |-> "idle"]
    /\ encryptedRecords = <<>>
    /\ upsertRequests = <<>>
    /\ ingestResult = NoResult
    /\ vectorStore = {}
    /\ RetrieveIdle
    /\ firstIngest = NoResult
    /\ chunkCalls = <<>>
    /\ contextResults = <<>>
    /\ context = NoResult
    /\ healthCalls = <<>>
    /\ ConstructedIdle
    /\ medicalRecordRepository = <<>>
    /\ record = [id |-> document.id, isEncrypted |-> FALSE, encryptedChunks |-> Null]
    /\ auditLog = <<>>
    /\ createPc = "saving"
    /\ createResult = NoResult
    /\ processPc = "idle"
    /\ removePc = "idle"
    /\ removeRecord = [id |-> "", isEncrypted |-> FALSE, encryptedChunks |-> Null]
    /\ removeResult = NoResult
    /\ ChatIdle

notRecordVars == <<firstIngest, chunkCalls, contextResults, context, healthCalls,
                   keyHex, constructed, cipherVars, retrieveVars, chatVars>>

\* create: repository.save(record) has inserted the row
CreateSaves ==
    /\ createPc = "saving"
    /\ medicalRecordRepository' = Save(medicalRecordRepository, record)
    /\ createPc' = "logging"
    /\ UNCHANGED <<notRecordVars, ingestVars, record, auditLog, createResult, processPc,
                   removePc, removeRecord, removeResult>>

\* create: the MEDICAL_RECORD_CREATED entry is written; processRecordAsync is
\* called and runs up to the first suspension of ingestDocument, and create
\* returns the record without awaiting it
CreateReturns ==
    /\ createPc = "logging"
    /\ auditLog' = Append(auditLog, AuditEntry("MEDICAL_RECORD_CREATED", record.id, 0))
    /\ ingestDocument
    /\ processPc' = "ingesting"
    /\ createResult' = Returned(record)
    /\ createPc' = "returned"
    /\ UNCHANGED <<notRecordVars, config, document, vectorStore, medicalRecordRepository,
                   record, removePc, removeRecord, removeResult>>

\* processRecordAsync resumes after `await this.ragService.ingestDocument(...)`
ProcessResumes ==
    /\ processPc = "ingesting"
    /\ pc \in {"done", "failed"}
    /\ LET after == processRecordAfterIngest(record, ingestResult)
       IN /\ record' = after.record
          /\ processPc' = IF after.save THEN "saving" ELSE "caught"
    /\ UNCHANGED <<notRecordVars, ingestVars, medicalRecordRepository, auditLog, createPc,
                   createResult, removePc, removeRecord, removeResult>>

\* processRecordAsync: repository.save(record) has written the row
ProcessSaves ==
    /\ processPc = "saving"
    /\ medicalRecordRepository' = Save(medicalRecordRepository, record)
    /\ processPc' = "logging"
    /\ UNCHANGED <<notRecordVars, ingestVars, record, auditLog, createPc, createResult,
                   removePc, removeRecord, removeResult>>

\* processRecordAsync: the MEDICAL_RECORD_ENCRYPTED entry is written
ProcessLogs ==
    /\ processPc = "logging"
    /\ auditLog' = Append(auditLog, AuditEntry("MEDICAL_RECORD_ENCRYPTED", record.id,
                                               Len(record.encryptedChunks.ids)))
    /\ processPc' = "done"
    /\ UNCHANGED <<notRecordVars, ingestVars, medicalRecordRepository, record, createPc,
                   createResult, removePc, removeRecord, removeResult>>

\* ingestDocument has settled and processRecordAsync has not resumed yet: it does
\* so before the event loop takes the next request or reply
ResumePending == processPc = "ingesting" /\ pc \in {"done", "failed"}

\* a client that got the record from create calls remove(record.id, userId)
RemoveCalled ==
    /\ removePc = "idle"
    /\ ~ResumePending
    /\ createResult.status = "ok"
    /\ removePc' = "finding"
    /\ UNCHANGED <<notRecordVars, ingestVars, medicalRecordRepository, record, auditLog,
                   createPc, createResult, processPc, removeRecord, removeResult>>

\* remove, in findOne: repository.findOne answers; NotFoundException for no row
RemoveFinds ==
    /\ removePc = "finding"
    /\ ~ResumePending
    /\ IF \E r \in 1..Len(medicalRecordRepository) :
             medicalRecordRepository[r].id = createResult.value.id
       THEN /\ removeRecord' = CHOOSE row \in {medicalRecordRepository[r] :
                                        r \in 1..Len(medicalRecordRepository)} :
                                    row.id = createResult.value.id
            /\ removePc' = "accessed"
            /\ UNCHANGED removeResult
       ELSE /\ removePc' = "failed"
            /\ removeResult' = Threw("Medical record not found")
            /\ UNCHANGED removeRecord
    /\ UNCHANGED <<notRecordVars, ingestVars, medicalRecordRepository, record, auditLog,
                   createPc, createResult, processPc>>

\* remove: findOne wrote MEDICAL_RECORD_ACCESSED and returned the record; the
\* vectors are deleted only when the record loaded lists chunk ids
RemoveLoaded ==
    /\ removePc = "accessed"
    /\ ~ResumePending
    /\ auditLog' = Append(auditLog, AuditEntry("MEDICAL_RECORD_ACCESSED", removeRecord.id, 0))
    /\ removePc' = IF /\ removeRecord.encryptedChunks.defined
                      /\ Len(removeRecord.encryptedChunks.ids) > 0
                   THEN "deleting" ELSE "removing"
    /\ UNCHANGED <<notRecordVars, ingestVars, medicalRecordRepository, record, createPc,
                   createResult, processPc, removeRecord, removeResult>>

\* remove, in deleteDocument: the store deleted the ids it was sent
StoreDeletes ==
    /\ removePc = "deleting"
    /\ ~ResumePending
    /\ vectorStore' = vectorStore \ {removeRecord.encryptedChunks.ids[i] :
                                       i \in 1..Len(removeRecord.encryptedChunks.ids)}
    /\ removePc' = "removing"
    /\ UNCHANGED <<notRecordVars, config, document, pc, chunks, calls, gen,
                   encryptedRecords, upsertRequests, ingestResult,
                   medicalRecordRepository, record, auditLog, createPc, createResult,
                   processPc, removeRecord, removeResult>>

\* remove, in deleteDocument: the delete request fails and remove throws
StoreDeleteFails ==
    /\ removePc = "deleting"
    /\ ~ResumePending
    /\ removePc' = "failed"
    /\ removeResult' = Threw("Failed to delete vectors: Request failed")
    /\ UNCHANGED <<notRecordVars, ingestVars, medicalRecordRepository, record, auditLog,
                   createPc, createResult, processPc, removeRecord>>

\* remove: repository.remove(record) has deleted the row
RepositoryRemoves ==
    /\ removePc = "removing"
    /\ ~ResumePending
    /\ medicalRecordRepository' = Remove(medicalRecordRepository, removeRecord)
    /\ removePc' = "logging"
    /\ UNCHANGED <<notRecordVars, ingestVars, record, auditLog, createPc, createResult,
                   processPc, removeRecord, removeResult>>

\* remove: the MEDICAL_RECORD_DELETED entry is written and remove returns
RemoveReturns ==
    /\ removePc = "logging"
    /\ ~ResumePending
    /\ auditLog' = Append(auditLog, AuditEntry("MEDICAL_RECORD_DELETED", removeRecord.id, 0))
    /\ removePc' = "done"
    /\ removeResult' = Returned(<<>>)
    /\ UNCHANGED <<notRecordVars, ingestVars, medicalRecordRepository, record, createPc,
                   createResult, processPc, removeRecord>>

NextRecords ==
    \/ CreateSaves
    \/ CreateReturns
    \/ ProviderResolves
    \/ ProviderRejects
    \/ StoreAcknowledges
    \/ StoreFails
    \/ ProcessResumes
    \/ ProcessSaves
    \/ ProcessLogs
    \/ RemoveCalled
    \/ RemoveFinds
    \/ RemoveLoaded
    \/ StoreDeletes
    \/ StoreDeleteFails
    \/ RepositoryRemoves
    \/ RemoveReturns

SpecRecords == InitRecords /\ [][NextRecords]_vars

-----------------------------------------------------------------------------
(* SpecChunker: chunkText called on one text, with other calls in between *)

ChunkAlphabet == {"a", " ", "."}

\* "Patient has fever. Patient has cough."
FeverCough ==
    <<
      "P", "a", "t", "i", "e", "n", "t", " ", "h", "a", "s", " ", "f", "e", "v", "e",
      "r", ".", " ", "P", "a", "t", "i", "e", "n", "t", " ", "h", "a", "s", " ", "c",
      "o", "u", "g", "h", "."
    >>

\* a sentence of one long word, then a short sentence
LongWord == <<"a", "a", "a", "a", ".", "a">>

ChunkTexts ==
    UNION {[1..n -> ChunkAlphabet] : n \in 0..MaxTextLen} \cup {FeverCough, LongWord}

\* the text of the calls made in between
OtherText == <<"a", "a", ".", "a">>

ChunkerConfigs ==
    [chunkSize : {3, 20}, chunkOverlap : {3, 5, 10}, maxConcurrent : {10},
     maxContextChunks : {5}, similarityThreshold : {70},
     modelDimension : {2}, providerReady : {TRUE}, storeClient : {TRUE}]

InitChunker ==
    /\ CipherIdle
    /\ RetrieveIdle
    /\ config \in ChunkerConfigs
    /\ document \in [id : {"rec1"}, hasContent : {TRUE}, content : ChunkTexts,
                      metadata : DocMetadatas]
    /\ pc = "idle"
    /\ chunks = <<>>
    /\ calls = <<>>
    /\ gen = [i |-> 0, results |-> <<>>, state |-> "idle"]
    /\ encryptedRecords = <<>>
    /\ upsertRequests = <<>>
    /\ ingestResult = NoResult
    /\ vectorStore = {}
    /\ firstIngest = NoResult
    /\ chunkCalls = <<>>
    /\ contextResults = <<>>
    /\ context = NoResult
    /\ healthCalls = <<>>
    /\ ConstructedIdle
    /\ RecordsIdle
    /\ ChatIdle

ChunkCall(text, metadata) ==
    [text |-> text, metadata |-> metadata,
     result |-> chunkText(text, metadata, config.chunkSize, config.chunkOverlap)]

\* chunkText(document.content, document.metadata)
ChunkText ==
    /\ Len(chunkCalls) < MaxChunkCalls
    /\ chunkCalls' = Append(chunkCalls, ChunkCall(document.content, document.metadata))
    /\ UNCHANGED <<cipherVars, ingestVars, retrieveVars, firstIngest,
                   contextResults, context, healthCalls, keyHex, constructed, recordVars, chatVars>>

\* chunkText of another text, with no metadata
ChunkOtherText ==
    /\ Len(chunkCalls) < MaxChunkCalls
    /\ chunkCalls' = Append(chunkCalls, ChunkCall(OtherText, <<>>))
    /\ UNCHANGED <<cipherVars, ingestVars, retrieveVars, firstIngest,
                   contextResults, context, healthCalls, keyHex, constructed, recordVars, chatVars>>

NextChunker ==
    \/ ChunkText
    \/ ChunkOtherText

SpecChunker == InitChunker /\ [][NextChunker]_vars

-----------------------------------------------------------------------------
(* SpecReingest: ingestDocument called a second time with the same document *)

\* both calls run under one configuration with both clients present, on a
\* document that has metadata
InitReingest ==
    /\ InitIngest
    /\ config.maxConcurrent = 2
    /\ config.modelDimension = getEmbeddingDimension
    /\ config.providerReady
    /\ config.storeClient
    /\ document.hasContent
    /\ document.metadata # <<>>

\* the caller keeps what the first call returned and the body it had upserted,
\* and calls ingestDocument(document) again: a fresh call, with the store and
\* the configuration as they are
IngestAgain ==
    /\ pc = "done"
    /\ firstIngest = NoResult
    /\ firstIngest' = Returned([ids |-> ingestResult.value,
                                upsert |-> upsertRequests[Len(upsertRequests)]])
    /\ pc' = "start"
    /\ chunks' = <<>>
    /\ calls' = <<>>
    /\ gen' = [i |-> 0, results |-> <<>>, state |-> "idle"]
    /\ encryptedRecords' = <<>>
    /\ ingestResult' = NoResult
    /\ UNCHANGED <<cipherVars, retrieveVars, config, document, vectorStore, upsertRequests,
                   chunkCalls, contextResults, context, healthCalls, keyHex, constructed,
                   recordVars, chatVars>>

NextReingest ==
    \/ NextIngest
    \/ IngestAgain

SpecReingest == InitReingest /\ [][NextReingest]_vars

-----------------------------------------------------------------------------
(* CyborgDbService.query and RagService.retrieve *)

\* A score is [defined, h]: h hundredths, or undefined (a match without a score)
Score(h) == [defined |-> TRUE, h |-> h]
UndefinedScore == [defined |-> FALSE, h |-> 0]
Scores == {Score(90), Score(75), Score(70), Score(50), UndefinedScore}

\* encryptedData: undefined
Undefined == [undefined |-> TRUE]

\* mutant: the comparison is strict
AtLeast_strict(score, threshold) == score.defined /\ score.h > threshold

\* result.score >= this.similarityThreshold (false for undefined)
AtLeast(score, threshold) == score.defined /\ score.h >= threshold

\* results.filter(...), as the 1-based positions kept, in order
KeptPositions(results, threshold) ==
    SortedSeq({i \in 1..Len(results) : AtLeast(results[i].score, threshold)})

\* the RetrievalResult made of one QueryResult
\* mutant: the metadata is passed on as the store returned it
Promote_metadataAsStored(result) ==
    [id |-> result.id,
     content |-> result.metadata.chunkText,
     score |-> result.score,
     metadata |-> result.metadata]

Promote(result) ==
    [id |-> result.id,
     content |-> result.metadata.chunkText,
     score |-> result.score,
     metadata |-> Spread(result.metadata, [encryptedData |-> Undefined])]

\* the increasing enumeration of positions by descending score
RECURSIVE ByScore(_, _)
ByScore(results, S) ==
    IF S = {} THEN <<>>
    ELSE LET top == CHOOSE i \in S : \A j \in S :
                       \/ results[j].score.h < results[i].score.h
                       \/ (results[j].score.h = results[i].score.h /\ i <= j)
         IN <<top>> \o ByScore(results, S \ {top})

\* mutant: the surviving results are re-sorted by descending score
filterAndPromote_sorted(results, threshold) ==
    LET kept == ByScore(results,
                        {i \in 1..Len(results) : AtLeast(results[i].score, threshold)})
    IN [m \in 1..Len(kept) |-> Promote(results[kept[m]])]

\* step 4 of retrieve: results.filter(...).map(...)
filterAndPromote(results, threshold) ==
    LET kept == KeptPositions(results, threshold)
    IN [m \in 1..Len(kept) |-> Promote(results[kept[m]])]

\* response.data.matches.map(...) of CyborgDbService.query
QueryResultsOf(matches) ==
    [i \in 1..Len(matches) |->
        [id |-> matches[i].id, score |-> matches[i].score,
         metadata |-> matches[i].metadata]]

\* the body CyborgDbService.query posts (filter is undefined here)
QueryBody(queryVector, topK) ==
    [vector |-> queryVector, topK |-> topK, includeMetadata |-> TRUE]

RetrieveFailed(msg) ==
    /\ rpc' = "failed"
    /\ retrieveResult' = Threw("Failed to retrieve context: " \o msg)

\* mutant: query answers a failure with no results
query_emptyOnFailure(reply, matches) ==
    IF reply = "matches" THEN Returned(QueryResultsOf(matches)) ELSE Returned(<<>>)

\* CyborgDbService.query, by what became of its POST: "matches" (2xx with a matches
\* array), "malformed" (2xx without one), "failed" (timeout, transport, non-2xx),
\* "noclient" (this.client is undefined); every throw is caught and rethrown
query(reply, matches) ==
    CASE reply = "matches" -> Returned(QueryResultsOf(matches))
      [] reply = "malformed" ->
           Threw("Failed to query vectors: Cannot read properties of undefined (reading 'map')")
      [] reply = "noclient" ->
           Threw("Failed to query vectors: Cannot read properties of undefined (reading 'post')")
      [] OTHER -> Threw("Failed to query vectors: request failed")

\* retrieve from the outcome of its query call on: step 4, or the catch block
retrieveAfterQuery(outcome, threshold) ==
    IF outcome.status = "ok"
    THEN Returned(filterAndPromote(outcome.value, threshold))
    ELSE Threw("Failed to retrieve context: " \o outcome.error)

\* the query call ends on the given reply and retrieve runs to its end
FinishRetrieve(reply, matches) ==
    LET outcome == query(reply, matches)
        result == retrieveAfterQuery(outcome, config.similarityThreshold)
    IN /\ queryCall' = [reply |-> reply, outcome |-> outcome]
       /\ queryResults' = IF outcome.status = "ok" THEN outcome.value ELSE <<>>
       /\ retrieveResult' = result
       /\ rpc' = IF result.status = "ok" THEN "done" ELSE "failed"

\* 'No relevant context found.'
NoContext ==
    <<"N", "o", " ", "r", "e", "l", "e", "v", "a", "n", "t", " ", "c", "o", "n", "t",
      "e", "x", "t", " ", "f", "o", "u", "n", "d", ".">>

\* mutant: the part text also carries the result's score
assembleContext_withScore(results) ==
    IF Len(results) = 0 THEN NoContext
    ELSE JoinStrings([i \in 1..Len(results) |->
                         <<"[">> \o NatToString(i) \o <<"]", " ">>
                         \o results[i].content \o NatToString(results[i].score.h)],
                     <<"\n", "\n">>)

\* assembleContext(results): `[${index + 1}] ${result.content}` joined by '\n\n'
assembleContext(results) ==
    IF Len(results) = 0 THEN NoContext
    ELSE JoinStrings([i \in 1..Len(results) |->
                         <<"[">> \o NatToString(i) \o <<"]", " ">> \o results[i].content],
                     <<"\n", "\n">>)

-----------------------------------------------------------------------------
(* SpecContext: assembleContext on a list of retrieval results *)

ContextContents == {<<>>, <<"a">>, <<"b", "\n", "c">>}

\* a RetrievalResult as retrieve builds it, for the chunk of a document
RetrievalResultOf(doc, content, score) ==
    [id |-> ChunkId(doc, 0),
     content |-> content,
     score |-> score,
     metadata |-> [documentId |-> doc, chunkIndex |-> 0, chunkText |-> content,
                   encrypted |-> TRUE, encryptedData |-> Undefined]]

RetrievalResults ==
    {RetrievalResultOf("rec1", c, Score(90)) : c \in ContextContents}
    \cup {RetrievalResultOf("rec2", c, Score(75)) : c \in ContextContents}

InitContext ==
    /\ CipherIdle
    /\ IngestIdle
    /\ RetrieveIdle
    /\ firstIngest = NoResult
    /\ chunkCalls = <<>>
    /\ contextResults \in UNION {[1..n -> RetrievalResults] : n \in 0..MaxMatches}
    /\ context = NoResult
    /\ healthCalls = <<>>
    /\ ConstructedIdle
    /\ RecordsIdle
    /\ ChatIdle

AssembleContext ==
    /\ context = NoResult
    /\ context' = Returned(assembleContext(contextResults))
    /\ UNCHANGED <<cipherVars, ingestVars, retrieveVars, firstIngest, chunkCalls,
                   contextResults, healthCalls, keyHex, constructed, recordVars, chatVars>>

NextContext == AssembleContext

SpecContext == InitContext /\ [][NextContext]_vars

-----------------------------------------------------------------------------
(* SpecRetrieve: one retrieve call *)

RetrieveConfigs ==
    [chunkSize : {500}, chunkOverlap : {50}, maxConcurrent : {10},
     maxContextChunks : {5}, similarityThreshold : {50, 70, 90},
     modelDimension : {2}, providerReady : BOOLEAN, storeClient : BOOLEAN]

\* the match the store returns at position p (from 1) with the given score: the
\* record ingestDocument stored for chunk p - 1 of document rec1
StoredMatch(p, score) ==
    [id |-> ChunkId("rec1", p - 1),
     score |-> score,
     metadata |-> [documentId |-> "rec1", chunkIndex |-> p - 1,
                   chunkText |-> <<"a">>, encrypted |-> TRUE,
                   encryptedData |-> encryptVector([j \in 1..KeyLength |-> 0],
                                                   [j \in 1..IVLength |-> p],
                                                   ModelEmbedding(<<"a">>).v)]]

\* the lists of matches the store may answer with: any scores, in any order
MatchLists ==
    UNION {{[p \in 1..n |-> StoredMatch(p, sc[p])] : sc \in [1..n -> Scores]} :
           n \in 0..MaxMatches}

InitRetrieve ==
    /\ CipherIdle
    /\ config \in RetrieveConfigs
    /\ document = [id |-> "", hasContent |-> TRUE, content |-> <<>>, metadata |-> <<>>]
    /\ pc = "idle"
    /\ chunks = <<>>
    /\ calls = <<>>
    /\ gen = [i |-> 0, results |-> <<>>, state |-> "idle"]
    /\ encryptedRecords = <<>>
    /\ upsertRequests = <<>>
    /\ ingestResult = NoResult
    /\ vectorStore = {}
    /\ request \in [query : {<<"a">>}, topK : {0, 2}]
    /\ rpc = "start"
    /\ queryRequests = <<>>
    /\ queryResults = <<>>
    /\ queryCall = [reply |-> "none", outcome |-> NoResult]
    /\ retrieveResult = NoResult
    /\ OtherIdle

\* retrieve(query, topK) up to its first suspension: generateEmbedding(query)
Retrieve ==
    /\ rpc = "start"
    /\ IF config.providerReady
       THEN /\ calls' = IssueBatch(calls, <<request.query>>, {1})
            /\ rpc' = "embedding"
            /\ UNCHANGED retrieveResult
       ELSE /\ RetrieveFailed("OpenAI embedding failed: OpenAI client not initialized")
            /\ UNCHANGED calls
    /\ UNCHANGED <<otherVars, cipherVars, config, document, vectorStore, pc, chunks, gen,
                   encryptedRecords,
                   upsertRequests, ingestResult, request, queryRequests, queryResults,
                   queryCall>>

\* the provider answers the query's embedding call: retrieve goes on to
\* cyborgDbService.query(queryEmbedding, topK || maxContextChunks)
QueryEmbedded ==
    /\ rpc = "embedding"
    /\ \E c \in InFlight(calls) : \E r \in ProviderResponses(calls[c].text) :
        /\ calls' = Settle(c, "ok", r)
        /\ IF config.storeClient
           THEN /\ queryRequests' = Append(queryRequests,
                    QueryBody(r, IF request.topK # 0 THEN request.topK
                                 ELSE config.maxContextChunks))
                /\ rpc' = "querying"
                /\ UNCHANGED <<retrieveResult, queryResults, queryCall>>
           ELSE /\ FinishRetrieve("noclient", <<>>)
                /\ UNCHANGED queryRequests
    /\ UNCHANGED <<otherVars, cipherVars, config, document, vectorStore, pc, chunks, gen,
                   encryptedRecords,
                   upsertRequests, ingestResult, request>>

\* the query's embedding call fails
QueryEmbeddingFails ==
    /\ rpc = "embedding"
    /\ \E c \in InFlight(calls) : calls' = Settle(c, "failed", UndefinedEmbedding)
    /\ RetrieveFailed("embedding failed")
    /\ UNCHANGED <<otherVars, cipherVars, config, document, vectorStore, pc, chunks, gen,
                   encryptedRecords,
                   upsertRequests, ingestResult, request, queryRequests, queryResults,
                   queryCall>>

\* the store answers { matches: [...] }: query returns them, retrieve filters
\* and returns
StoreAnswers ==
    /\ rpc = "querying"
    /\ \E matches \in MatchLists : FinishRetrieve("matches", matches)
    /\ UNCHANGED <<otherVars, cipherVars, ingestVars, request, queryRequests>>

\* the store answers 2xx with a body that has no matches array: query throws
StoreAnswersMalformed ==
    /\ rpc = "querying"
    /\ FinishRetrieve("malformed", <<>>)
    /\ UNCHANGED <<otherVars, cipherVars, ingestVars, request, queryRequests>>

\* the query request fails (timeout, transport, non-2xx): query throws
StoreQueryFails ==
    /\ rpc = "querying"
    /\ FinishRetrieve("failed", <<>>)
    /\ UNCHANGED <<otherVars, cipherVars, ingestVars, request, queryRequests>>

NextRetrieve ==
    \/ Retrieve
    \/ QueryEmbedded
    \/ QueryEmbeddingFails
    \/ StoreAnswers
    \/ StoreAnswersMalformed
    \/ StoreQueryFails

SpecRetrieve == InitRetrieve /\ [][NextRetrieve]_vars

-----------------------------------------------------------------------------
(* SpecChat: one chat:message or chat:stream request handled by ChatGateway,
   ChatService.chat / streamChat and the retrieve call they make *)

MaxStreamChunks == 2

\* mutant: a failed retrieve counts as no context found
awaitRetrieve_noContextOnFailure(outcome) ==
    [ok |-> TRUE, retrievalResults |-> outcome.value, error |-> ""]

\* `const retrievalResults = await this.ragService.retrieve(userMessage)`: the
\* results, or the error retrieve threw, which leaves the try block
awaitRetrieve(outcome) ==
    IF outcome.status = "ok"
    THEN [ok |-> TRUE, retrievalResults |-> outcome.value, error |-> ""]
    ELSE [ok |-> FALSE, retrievalResults |-> <<>>, error |-> outcome.error]

\* the messages sent to the chat model: the system message carries the context
GeneratorBody(results, userMessage, stream) ==
    [context |-> assembleContext(results), message |-> userMessage, stream |-> stream]

\* the ChatResponse chat returns
ChatResponseOf(response, results) ==
    [message |-> response,
     context |-> [i \in 1..Len(results) |-> results[i].content],
     sources |-> [i \in 1..Len(results) |->
                    [id |-> results[i].id, score |-> results[i].score,
                     metadata |-> results[i].metadata]]]

Event(name, payload) == [event |-> name, payload |-> payload]

\* handleMessage once chat settled: chat:response, or chat:error from the catch
handleMessage(outcome) ==
    IF outcome.status = "ok"
    THEN <<Event("chat:response", outcome.value)>>
    ELSE <<Event("chat:error", [message |-> outcome.error])>>

\* mutant: chat:stream:end is emitted on every path (as from a finally block)
handleStreamMessage_endAlways(outcome) ==
    IF outcome.status = "ok"
    THEN <<Event("chat:stream:end", [done |-> TRUE])>>
    ELSE <<Event("chat:error", [message |-> outcome.error]),
           Event("chat:stream:end", [done |-> TRUE])>>

\* handleStreamMessage once the for-await loop over streamChat ended:
\* chat:stream:end after it, or chat:error from the catch block
handleStreamMessage(outcome) ==
    IF outcome.status = "ok"
    THEN <<Event("chat:stream:end", [done |-> TRUE])>>
    ELSE <<Event("chat:error", [message |-> outcome.error])>>

\* chat wraps what it catches, streamChat rethrows it
ChatError(msg) ==
    IF handler = "chat:message" THEN Threw("Chat failed: " \o msg) ELSE Threw(msg)

\* chat / streamChat ends with the given outcome and the handler emits its last
\* event
Finish(outcome) ==
    /\ chatResult' = outcome
    /\ emitted' = emitted \o (IF handler = "chat:message" THEN handleMessage(outcome)
                              ELSE handleStreamMessage(outcome))
    /\ chatPc' = IF outcome.status = "ok" THEN "done" ELSE "failed"

\* what the store answers to the query of a chat request
ChatMatchLists ==
    {<<>>, <<StoredMatch(1, Score(90))>>,
     <<StoredMatch(1, Score(90)), StoredMatch(2, Score(50)), StoredMatch(3, Score(75))>>}

\* what the chat model answers, and the contents of the parts it streams
GeneratorResponses == {<<"o", "k">>}
StreamContents == {<<>>, <<"x">>, <<"y">>}

\* the gateway has received the event and called chat / streamChat, which is
\* about to call retrieve(userMessage)
InitChat ==
    /\ CipherIdle
    /\ config \in {c \in RetrieveConfigs : c.similarityThreshold = 70}
    /\ document = [id |-> "", hasContent |-> TRUE, content |-> <<>>, metadata |-> <<>>]
    /\ pc = "idle"
    /\ chunks = <<>>
    /\ calls = <<>>
    /\ gen = [i |-> 0, results |-> <<>>, state |-> "idle"]
    /\ encryptedRecords = <<>>
    /\ upsertRequests = <<>>
    /\ ingestResult = NoResult
    /\ vectorStore = {}
    /\ request = [query |-> <<"a">>, topK |-> 0]
    /\ rpc = "start"
    /\ queryRequests = <<>>
    /\ queryResults = <<>>
    /\ queryCall = [reply |-> "none", outcome |-> NoResult]
    /\ retrieveResult = NoResult
    /\ firstIngest = NoResult
    /\ chunkCalls = <<>>
    /\ contextResults = <<>>
    /\ context = NoResult
    /\ healthCalls = <<>>
    /\ ConstructedIdle
    /\ RecordsIdle
    /\ handler \in {"chat:message", "chat:stream"}
    /\ chatPc = "retrieving"
    /\ generatorRequests = <<>>
    /\ yielded = <<>>
    /\ chatResult = NoResult
    /\ emitted = <<>>
    /\ disconnect = Connected

notChatVars == <<firstIngest, chunkCalls, contextResults, context, healthCalls,
                 keyHex, constructed, cipherVars, ingestVars, medicalRecordRepository,
                 record, createPc, createResult, processPc, removePc, removeRecord,
                 removeResult>>

\* retrieve has settled and chat / streamChat has not resumed yet: it does so
\* before the event loop takes the next event
ChatResumePending == chatPc = "retrieving" /\ rpc \in {"done", "failed"}

\* the store answers the query of the chat request
ChatStoreAnswers ==
    /\ rpc = "querying"
    /\ \E matches \in ChatMatchLists : FinishRetrieve("matches", matches)
    /\ UNCHANGED <<otherVars, cipherVars, ingestVars, request, queryRequests>>

\* chat / streamChat resumes after `await this.ragService.retrieve(...)`: the
\* context is assembled and the request to the chat model is sent, or the
\* catch block is entered
ChatResumes ==
    /\ ChatResumePending
    /\ LET retrieved == awaitRetrieve(retrieveResult)
       IN IF retrieved.ok
          THEN /\ generatorRequests' = Append(generatorRequests,
                      GeneratorBody(retrieved.retrievalResults, request.query,
                                    handler = "chat:stream"))
               /\ chatPc' = "generating"
               /\ UNCHANGED <<chatResult, emitted>>
          ELSE /\ Finish(ChatError(retrieved.error))
               /\ UNCHANGED generatorRequests
    /\ UNCHANGED <<notChatVars, retrieveVars, auditLog, handler, yielded, disconnect>>

\* chat: the chat model answers; the CHAT_MESSAGE entry is awaited next
GeneratorAnswers ==
    /\ chatPc = "generating"
    /\ handler = "chat:message"
    /\ \E response \in GeneratorResponses : yielded' = <<response>>
    /\ chatPc' = "logging"
    /\ UNCHANGED <<notChatVars, retrieveVars, auditLog, handler, generatorRequests,
                   chatResult, emitted, disconnect>>

\* streamChat: the chat model opens the stream
StreamOpens ==
    /\ chatPc = "generating"
    /\ handler = "chat:stream"
    /\ chatPc' = "streaming"
    /\ UNCHANGED <<notChatVars, retrieveVars, auditLog, handler, generatorRequests,
                   yielded, chatResult, emitted, disconnect>>

\* the request to the chat model fails (transport, non-2xx, no client)
GeneratorFails ==
    /\ chatPc = "generating"
    /\ Finish(ChatError("Request failed"))
    /\ UNCHANGED <<notChatVars, retrieveVars, auditLog, handler, generatorRequests,
                   yielded, disconnect>>

\* streamChat: a part of the stream arrives; a part with content is yielded, and
\* handleStreamMessage emits it as chat:stream:chunk
StreamYields ==
    /\ chatPc = "streaming"
    /\ Len(yielded) < MaxStreamChunks
    /\ \E content \in StreamContents :
        IF content # <<>>
        THEN /\ yielded' = Append(yielded, content)
             /\ emitted' = Append(emitted, Event("chat:stream:chunk", [chunk |-> content]))
        ELSE UNCHANGED <<yielded, emitted>>
    /\ UNCHANGED <<notChatVars, retrieveVars, auditLog, handler, chatPc, generatorRequests,
                   chatResult, disconnect>>

\* streamChat: the stream breaks, or a part of it is not JSON
StreamBreaks ==
    /\ chatPc = "streaming"
    /\ Finish(ChatError("Unexpected end of JSON input"))
    /\ UNCHANGED <<notChatVars, retrieveVars, auditLog, handler, generatorRequests,
                   yielded, disconnect>>

\* streamChat: the stream ends; the CHAT_STREAM entry is awaited next
StreamCloses ==
    /\ chatPc = "streaming"
    /\ chatPc' = "logging"
    /\ UNCHANGED <<notChatVars, retrieveVars, auditLog, handler, generatorRequests,
                   yielded, chatResult, emitted, disconnect>>

\* the audit entry is written: chat returns its ChatResponse, streamChat returns
ChatLogs ==
    /\ chatPc = "logging"
    /\ auditLog' = Append(auditLog,
          AuditEntry(IF handler = "chat:message" THEN "CHAT_MESSAGE" ELSE "CHAT_STREAM",
                     "", Len(retrieveResult.value)))
    /\ Finish(IF handler = "chat:message"
              THEN Returned(ChatResponseOf(yielded[1], retrieveResult.value))
              ELSE Returned(<<>>))
    /\ UNCHANGED <<notChatVars, retrieveVars, handler, generatorRequests, yielded,
                   disconnect>>

\* auditService.log throws
ChatLogFails ==
    /\ chatPc = "logging"
    /\ Finish(ChatError("audit log failed"))
    /\ UNCHANGED <<notChatVars, retrieveVars, auditLog, handler, generatorRequests,
                   yielded, disconnect>>

\* the client disconnects while its request is being handled: handleDisconnect
\* writes a log line
ClientDisconnects ==
    /\ ~disconnect.happened
    /\ rpc # "start"
    /\ chatPc \notin {"done", "failed"}
    /\ ~ChatResumePending
    /\ disconnect' = [happened |-> TRUE, queries |-> Len(queryRequests),
                      generations |-> Len(generatorRequests), yields |-> Len(yielded)]
    /\ UNCHANGED <<notChatVars, retrieveVars, auditLog, handler, chatPc,
                   generatorRequests, yielded, chatResult, emitted>>

NextChat ==
    \/ Retrieve
    \/ QueryEmbedded
    \/ QueryEmbeddingFails
    \/ ChatStoreAnswers
    \/ StoreAnswersMalformed
    \/ StoreQueryFails
    \/ ChatResumes
    \/ GeneratorAnswers
    \/ StreamOpens
    \/ GeneratorFails
    \/ StreamYields
    \/ StreamBreaks
    \/ StreamCloses
    \/ ChatLogs
    \/ ChatLogFails
    \/ ClientDisconnects

SpecChat == InitChat /\ [][NextChat]_vars

-----------------------------------------------------------------------------
(* SpecConstruct: the EncryptionService constructed from a configured key *)

\* a string of len characters "a", the one at position other (if any) being c
KeyString(len, other, c) == [j \in 1..len |-> IF j = other THEN c ELSE "a"]

\* ENCRYPTION_KEY: not set, or a string that is too short, right or too long, of
\* hex digits or with one character that is none
KeyHexes ==
    {[defined |-> FALSE, s |-> <<>>]}
    \cup {[defined |-> TRUE, s |-> KeyString(len, other, c)] :
             len \in {0, 32, 62, 63, 64, 65, 66, 128},
             other \in {0, 1, 2, 33, 63, 64}, c \in {"F", "g", " "}}

InitConstruct ==
    /\ IngestIdle
    /\ RetrieveIdle
    /\ key = <<>>
    /\ vector = <<>>
    /\ encrypted1 = <<>>
    /\ encrypted2 = <<>>
    /\ drawnIVs = <<>>
    /\ tampered = NotTampered
    /\ truncated = <<>>
    /\ decrypted = [of |-> "none", result |-> NoResult]
    /\ firstIngest = NoResult
    /\ chunkCalls = <<>>
    /\ contextResults = <<>>
    /\ context = NoResult
    /\ healthCalls = <<>>
    /\ keyHex \in KeyHexes
    /\ constructed = NoResult
    /\ RecordsIdle
    /\ ChatIdle

\* new EncryptionService(configService)
Construct ==
    /\ constructed = NoResult
    /\ constructed' = EncryptionService(keyHex)
    /\ key' = IF constructed'.status = "ok" THEN constructed'.value ELSE key
    /\ UNCHANGED <<vector, encrypted1, encrypted2, drawnIVs, tampered, truncated, decrypted,
                   ingestVars, retrieveVars, firstIngest, chunkCalls, contextResults,
                   context, healthCalls, keyHex, recordVars, chatVars>>

NextConstruct == Construct

SpecConstruct == InitConstruct /\ [][NextConstruct]_vars

-----------------------------------------------------------------------------
(* SpecCipher: one vector, encrypted twice, decrypted, tampered with *)


InitCipher ==
    /\ key \in ValidKeys
    /\ vector \in VectorsOver(Numbers, MaxVecLen)
    /\ encrypted1 = <<>>
    /\ encrypted2 = <<>>
    /\ drawnIVs = <<>>
    /\ tampered = NotTampered
    /\ truncated = <<>>
    /\ decrypted = [of |-> "none", result |-> NoResult]
    /\ IngestIdle
    /\ RetrieveIdle
    /\ OtherIdle

EncryptFirst ==
    /\ encrypted1 = <<>>
    /\ \E iv \in RandomIVs :
        /\ encrypted1' = encryptVector(key, iv, vector)
        /\ drawnIVs' = Append(drawnIVs, iv)
    /\ UNCHANGED <<otherVars, key, vector, encrypted2, tampered, truncated, decrypted,
                 ingestVars, retrieveVars>>

EncryptSecond ==
    /\ encrypted1 # <<>>
    /\ encrypted2 = <<>>
    /\ tampered = NotTampered
    /\ truncated = <<>>
    /\ \E iv \in RandomIVs :
        /\ encrypted2' = encryptVector(key, iv, vector)
        /\ drawnIVs' = Append(drawnIVs, iv)
    /\ UNCHANGED <<otherVars, key, vector, encrypted1, tampered, truncated, decrypted,
                 ingestVars, retrieveVars>>

DecryptFirst ==
    /\ encrypted1 # <<>>
    /\ decrypted' = [of |-> "encrypted1", result |-> decryptVector(key, encrypted1)]
    /\ UNCHANGED <<otherVars, key, vector, encrypted1, encrypted2, drawnIVs, tampered,
                 truncated, ingestVars, retrieveVars>>

DecryptSecond ==
    /\ encrypted2 # <<>>
    /\ decrypted' = [of |-> "encrypted2", result |-> decryptVector(key, encrypted2)]
    /\ UNCHANGED <<otherVars, key, vector, encrypted1, encrypted2, drawnIVs, tampered,
                 truncated, ingestVars, retrieveVars>>

\* decryptVector on a stored payload of which someone changed one byte (XOR with
\* a non-zero delta) since encryptVector returned it
DecryptTampered ==
    /\ encrypted1 # <<>>
    /\ encrypted2 = <<>>
    /\ tampered = NotTampered
    /\ truncated = <<>>
    /\ LET combined == Base64Decode(encrypted1)
       IN \E pos \in 1..Len(combined), delta \in TamperDeltas :
            LET payload == Base64Encode(
                    [combined EXCEPT ![pos] = Xor(combined[pos], delta)])
            IN /\ tampered' = [pos |-> pos, delta |-> delta, payload |-> payload]
               /\ decrypted' = [of |-> "tampered", result |-> decryptVector(key, payload)]
    /\ UNCHANGED <<otherVars, key, vector, encrypted1, encrypted2, drawnIVs, truncated,
                   ingestVars, retrieveVars>>

\* how many bytes of a stored payload survive: none, part of the IV, the IV, the
\* IV and part of the tag, the IV and the tag
TruncatedLengths == {0, 11, 12, 24, 27, 28}

\* decryptVector on a stored payload of which only the first bytes are left
DecryptTruncated ==
    /\ encrypted1 # <<>>
    /\ encrypted2 = <<>>
    /\ tampered = NotTampered
    /\ truncated = <<>>
    /\ \E n \in TruncatedLengths :
        LET payload == Base64Encode(Slice(Base64Decode(encrypted1), 0, n))
        IN /\ truncated' = [length |-> n, payload |-> payload]
           /\ decrypted' = [of |-> "truncated", result |-> decryptVector(key, payload)]
    /\ UNCHANGED <<otherVars, key, vector, encrypted1, encrypted2, drawnIVs, tampered,
                   ingestVars, retrieveVars>>

NextCipher ==
    \/ EncryptFirst
    \/ EncryptSecond
    \/ DecryptFirst
    \/ DecryptSecond
    \/ DecryptTampered
    \/ DecryptTruncated

SpecCipher == InitCipher /\ [][NextCipher]_vars

-----------------------------------------------------------------------------
(* Claims on EncryptionService (SpecCipher) *)

IsFinite(x) == x.k \in {"num", "negzero"}

\* value is a vector of the length of v, equal to v component by component (===)
SameVector(value, v) ==
    /\ Len(value) = Len(v)
    /\ \A i \in 1..Len(v) : StrictEquals(value[i], v[i])

DecryptedAnEncryption == decrypted.of \in {"encrypted1", "encrypted2"}

\* C1, as stated: for every numeric vector v, decryptVector(encryptVector(v))
\* returns a vector of the length of v whose components equal those of v.
C1_RoundTripEveryVector ==
    DecryptedAnEncryption =>
        /\ decrypted.result.status = "ok"
        /\ SameVector(decrypted.result.value, vector)

\* C1, amended: for every vector v of finite numbers, decryptVector(encryptVector(v))
\* returns a vector of the length of v whose components equal those of v; NaN and
\* the infinities come back as null.
C1_RoundTripFiniteVector ==
    DecryptedAnEncryption =>
        /\ decrypted.result.status = "ok"
        /\ Len(decrypted.result.value) = Len(vector)
        /\ \A i \in 1..Len(vector) :
              IF IsFinite(vector[i])
              THEN StrictEquals(decrypted.result.value[i], vector[i])
              ELSE decrypted.result.value[i] = Special("null")

C1_Witness ==
    /\ decrypted.of = "encrypted1"
    /\ vector = <<Num(1), Num(-2)>>
    /\ decrypted.result.value = <<Num(1), Num(-2)>>

BothEncrypted == encrypted1 # <<>> /\ encrypted2 # <<>>

C3_TamperedPayloadRejected ==
    decrypted.of = "tampered" =>
        /\ tampered.payload # encrypted1
        /\ decrypted.result.status = "error"
        /\ decrypted.result.value = <<>>

C3_Witness ==
    /\ decrypted.of = "tampered"
    /\ tampered.pos > 28
    /\ vector = <<Num(1)>>
    /\ decrypted.result.status = "error"

\* the Error decryptVector throws when decipher.final() finds the tag wrong
TagMismatchError ==
    Threw("Decryption failed: Unsupported state or unable to authenticate data")

\* C23: the error decryptVector throws on an authentication-tag mismatch is not the
\* error it throws on a payload that is too short to hold an IV, a tag and any
\* ciphertext: a caller can tell the two failures apart.
C23_TooShortPayloadIsNotATagMismatch ==
    (decrypted.of = "truncated" /\ truncated.length <= IVLength + AuthTagLength)
        => decrypted.result # TagMismatchError

-----------------------------------------------------------------------------
(* SpecHealth: healthCheck polled while a retrieve call runs *)

\* what happened to this.client.get('/health'): "pending", "ok" (2xx), "failed"
\* (timeout, transport, non-2xx), or "noclient" (this.client is undefined, the
\* member access throws a TypeError)
HealthReplies == {"ok", "failed", "noclient"}

\* mutant: no catch, the failure of the request leaves healthCheck
healthCheck_noCatch(reply) ==
    IF reply = "ok" THEN Returned("true") ELSE Threw("health request failed")

\* healthCheck once the request has the given reply: true after the await, false
\* from the catch block
healthCheck(reply) ==
    IF reply = "ok" THEN Returned("true") ELSE Returned("false")

\* healthCheck() is called; without a client it returns false at once
HealthCheck ==
    /\ Len(healthCalls) < MaxHealthChecks
    /\ healthCalls' = Append(healthCalls,
          IF config.storeClient
          THEN [reply |-> "pending", result |-> NoResult]
          ELSE [reply |-> "noclient", result |-> healthCheck("noclient")])
    /\ UNCHANGED <<cipherVars, ingestVars, retrieveVars, firstIngest, chunkCalls,
                   contextResults, context, keyHex, constructed, recordVars, chatVars>>

\* the store answers a health request with 2xx
HealthAnswers ==
    /\ \E h \in 1..Len(healthCalls) :
          /\ healthCalls[h].reply = "pending"
          /\ healthCalls' = [healthCalls EXCEPT
                                ![h] = [reply |-> "ok", result |-> healthCheck("ok")]]
    /\ UNCHANGED <<cipherVars, ingestVars, retrieveVars, firstIngest, chunkCalls,
                   contextResults, context, keyHex, constructed, recordVars, chatVars>>

\* a health request fails
HealthFails ==
    /\ \E h \in 1..Len(healthCalls) :
          /\ healthCalls[h].reply = "pending"
          /\ healthCalls' = [healthCalls EXCEPT
                                ![h] = [reply |-> "failed", result |-> healthCheck("failed")]]
    /\ UNCHANGED <<cipherVars, ingestVars, retrieveVars, firstIngest, chunkCalls,
                   contextResults, context, keyHex, constructed, recordVars, chatVars>>

NextHealth ==
    \/ NextRetrieve
    \/ HealthCheck
    \/ HealthAnswers
    \/ HealthFails

SpecHealth == InitRetrieve /\ [][NextHealth]_vars

-----------------------------------------------------------------------------
(* Claims on ingestDocument and generateEmbeddings (SpecIngest) *)

\* the window (batch number, from 0) of the text with 1-based index j
Window(j) == (j - 1) \div config.maxConcurrent

FailedCalls == {c \in 1..Len(calls) : calls[c].status = "failed"}

\* C4: no record in an upsert request body carries the plaintext embedding of its
\* chunk as its vector (values).
C4_NoPlaintextVectorUpserted ==
    \A r \in 1..Len(upsertRequests) :
        \A i \in 1..Len(upsertRequests[r].vectors) :
            upsertRequests[r].vectors[i].values # gen.results[i].embedding.v

\* C7: when generateEmbeddings returns, it returns one result per text, and result i
\* is what the provider answered to the call made for texts[i], whatever order the
\* calls completed in.
C7_ResultsInInputOrder ==
    gen.state = "resolved" =>
        /\ Len(gen.results) = Len(chunks)
        /\ \A i \in 1..Len(chunks) :
              /\ CallOf(calls, i).text = chunks[i].text
              /\ gen.results[i].embedding = CallOf(calls, i).response
              /\ gen.results[i].embedding \in ProviderResponses(chunks[i].text)

C7_Witness ==
    /\ gen.state = "resolved"
    /\ Len(chunks) >= 2
    /\ gen.results[1].embedding # gen.results[2].embedding
    /\ \E c1, c2 \in 1..Len(calls) :
          /\ calls[c1].index < calls[c2].index
          /\ Window(calls[c1].index) = Window(calls[c2].index)
          /\ calls[c1].settledAt > calls[c2].settledAt

\* C8: the provider calls in flight never exceed performance.maxConcurrentEmbeddings,
\* and a call of a window exists only when every call of the windows before it has
\* completed.
C8_InFlightWithinCap ==
    /\ Cardinality(InFlight(calls)) <= config.maxConcurrent
    /\ \A c1, c2 \in 1..Len(calls) :
          Window(calls[c1].index) < Window(calls[c2].index) =>
              calls[c1].status # "inflight"

C8_Witness ==
    /\ Len(chunks) > config.maxConcurrent
    /\ config.maxConcurrent = 2
    /\ Cardinality(InFlight(calls)) = 2
    /\ gen.state = "running"

\* C9: once a provider call has failed, generateEmbeddings has failed (and with it
\* ingestDocument), no call of a later window is ever issued, and a result list
\* that generateEmbeddings returns is never shorter than its input.
C9_OneFailureFailsTheBatch ==
    /\ FailedCalls # {} =>
          /\ gen.state = "rejected"
          /\ ingestResult.status = "error"
          /\ \A f \in FailedCalls, c \in 1..Len(calls) :
                Window(calls[c].index) <= Window(calls[f].index)
    /\ gen.state = "resolved" => Len(gen.results) = Len(chunks)

C9_Witness ==
    /\ FailedCalls # {}
    /\ Len(chunks) = 3
    /\ config.maxConcurrent = 1
    /\ \E c \in 1..Len(calls) : calls[c].status = "ok"
    /\ Len(calls) < Len(chunks)
    /\ gen.state = "rejected"

ChunkingFailed == ~document.hasContent /\ pc # "start"

EmbeddingStepFailed == FailedCalls # {} \/ gen.state = "rejected"

EncryptStepFailed ==
    /\ gen.state = "resolved"
    /\ \E i \in 1..Len(gen.results) : ~gen.results[i].embedding.defined

\* C10: chunking, an embedding call or an encryptVector call that fails leaves no upsert
\* request and makes ingestDocument throw; there is at most one upsert request per
\* call, it carries one record per chunk, in chunk order, and it is issued only
\* when every chunk has been embedded and encrypted.
C10_UpsertAllOrNothing ==
    /\ Len(upsertRequests) <= 1
    /\ (ChunkingFailed \/ EmbeddingStepFailed \/ EncryptStepFailed) =>
          /\ upsertRequests = <<>>
          /\ ingestResult.status = "error"
    /\ upsertRequests # <<>> =>
          /\ gen.state = "resolved"
          /\ \A c \in 1..Len(calls) : calls[c].status = "ok"
          /\ Len(encryptedRecords) = Len(chunks)
          /\ upsertRequests[1] = UpsertBody(encryptedRecords)
          /\ \A i \in 1..Len(chunks) :
                /\ encryptedRecords[i].id = ChunkId(document.id, i - 1)
                /\ gen.results[i].embedding.defined
                /\ encryptedRecords[i].vector = gen.results[i].embedding.v

C10_Witness ==
    /\ Len(chunks) >= 2
    /\ gen.state = "resolved"
    /\ gen.results[1].embedding.defined
    /\ ~gen.results[2].embedding.defined
    /\ upsertRequests = <<>>
    /\ ingestResult.status = "error"

\* C28: in every record ingestDocument upserts, metadata.documentId is the document
\* id, metadata.chunkIndex the index of the chunk, metadata.chunkText its text and
\* metadata.encryptedData the payload of its vector, whatever document.metadata holds.
C28_PipelineFieldsKept ==
    \A r \in 1..Len(upsertRequests) :
        \A i \in 1..Len(upsertRequests[r].vectors) :
            LET metadata == upsertRequests[r].vectors[i].metadata
            IN /\ metadata.documentId = document.id
               /\ metadata.chunkIndex = i - 1
               /\ metadata.chunkText = chunks[i].text
               /\ LET vector_i == decryptVector(key, metadata.encryptedData)
                  IN /\ vector_i.status = "ok"
                     /\ vector_i.value = gen.results[i].embedding.v

\* C18: a document whose content is empty or gives no chunk makes ingestDocument
\* throw, with no provider call made and no upsert request sent.
C18_EmptyDocumentRejected ==
    (pc # "start" /\ document.hasContent /\ chunks = <<>>) =>
        /\ ingestResult.status = "error"
        /\ calls = <<>>
        /\ upsertRequests = <<>>

\* C19: every vector in an upsert request has the configured embedding dimension.
C19_UpsertedVectorsHaveDimension ==
    \A r \in 1..Len(upsertRequests) :
        \A i \in 1..Len(upsertRequests[r].vectors) :
            Len(upsertRequests[r].vectors[i].values) = getEmbeddingDimension

-----------------------------------------------------------------------------
(* Claims on the EncryptionService constructor (SpecConstruct) *)

\* C20: construction throws when the key is missing or does not decode to 32 bytes,
\* and a constructed service holds a key of exactly 32 bytes.
C20_ConstructedKeyIs256Bits ==
    /\ constructed.status = "ok" => Len(key) = KeyLength
    /\ (constructed.status # "none"
          /\ (~keyHex.defined \/ Len(HexDecode(keyHex.s)) # KeyLength))
       => constructed.status = "error"

-----------------------------------------------------------------------------
(* Claims on chunkText (SpecChunker) *)

\* the words of a chunk text
WordsOf(text) == NonEmpty(SplitOn(text, " "))

\* C12: every chunk chunkText returns is at most chunkSize long, except a chunk that
\* is one sentence which is itself longer than chunkSize.
C12_ChunksWithinChunkSize ==
    \A c \in 1..Len(chunkCalls) :
        \A k \in 1..Len(chunkCalls[c].result) :
            LET chunk == chunkCalls[c].result[k].text
                sentences == splitIntoSentences(chunkCalls[c].text)
            IN \/ Len(chunk) <= config.chunkSize
               \/ \E j \in 1..Len(sentences) : chunk = sentences[j]

\* C13: every chunk after the first begins with words that end the chunk before it.
C13_NextChunkStartsWithTail ==
    \A c \in 1..Len(chunkCalls) :
        \A k \in 1..(Len(chunkCalls[c].result) - 1) :
            LET closed == WordsOf(chunkCalls[c].result[k].text)
                next == WordsOf(chunkCalls[c].result[k + 1].text)
            IN \E w \in 1..Len(closed) :
                  /\ w <= Len(next)
                  /\ SubSeq(next, 1, w) = SubSeq(closed, Len(closed) - w + 1, Len(closed))

\* String.prototype.includes
Includes(text, part) ==
    \E from \in 1..(Len(text) - Len(part) + 1) :
        SubSeq(text, from, from + Len(part) - 1) = part

\* String.prototype.endsWith
EndsWith(text, part) ==
    /\ Len(part) <= Len(text)
    /\ SubSeq(text, Len(text) - Len(part) + 1, Len(text)) = part

\* C24: chunkText drops and truncates no sentence unit: every unit that
\* splitIntoSentences yields is whole in some chunk returned, and a chunk that holds
\* a unit longer than chunkSize ends with that unit (no later unit was added to it).
C24_OversizedUnitClosesItsChunk ==
    \A c \in 1..Len(chunkCalls) :
        LET sentences == splitIntoSentences(chunkCalls[c].text)
            result == chunkCalls[c].result
        IN \A j \in 1..Len(sentences) :
            /\ \E k \in 1..Len(result) : Includes(result[k].text, sentences[j])
            /\ Len(sentences[j]) > config.chunkSize
                => \A k \in 1..Len(result) :
                      Includes(result[k].text, sentences[j])
                          => EndsWith(result[k].text, sentences[j])

-----------------------------------------------------------------------------
(* Claims on assembleContext (SpecContext) *)

\* the text the i-th result contributes: "[i] " and its content
ContextPart(i) ==
    <<"[">> \o NatToString(i) \o <<"]", " ">> \o contextResults[i].content

\* where part i starts in the context (0-based): after the parts before it and
\* one blank line (two line feeds) after each of them
ContextOffset(i) ==
    SeqSum([j \in 1..(i - 1) |-> Len(ContextPart(j)) + 2])

\* C15: assembleContext returns "No relevant context found." for no results; otherwise
\* the context is made of the parts "[i] content_i" in the order received, two line
\* feeds between neighbours, and of nothing else.
C15_ContextIsRankedContents ==
    context.status = "ok" =>
        LET out == context.value
            n == Len(contextResults)
        IN IF n = 0 THEN out = NoContext
           ELSE /\ Len(out) = ContextOffset(n) + Len(ContextPart(n))
                /\ \A i \in 1..n :
                      SubSeq(out, ContextOffset(i) + 1,
                             ContextOffset(i) + Len(ContextPart(i))) = ContextPart(i)
                /\ \A i \in 1..(n - 1) :
                      SubSeq(out, ContextOffset(i + 1) - 1, ContextOffset(i + 1))
                          = <<"\n", "\n">>

C15_Witness ==
    /\ context.status = "ok"
    /\ Len(contextResults) = 3
    /\ contextResults[1].content = <<"b", "\n", "c">>
    /\ contextResults[2].content = <<"a">>
    /\ contextResults[1].id # contextResults[2].id
    /\ context.value = <<"[", "1", "]", " ", "b", "\n", "c", "\n", "\n",
                         "[", "2", "]", " ", "a", "\n", "\n", "[", "3", "]", " ">>

-----------------------------------------------------------------------------
(* Claims on a failing store query (SpecRetrieve) *)

\* C17: when the store query fails (no client, a failed request, a reply without
\* matches), query throws and retrieve throws; retrieve returns a list only when the
\* store answered with matches.
C17_StoreFailureIsAnError ==
    /\ queryCall.reply \in {"malformed", "failed", "noclient"} =>
          /\ queryCall.outcome.status = "error"
          /\ retrieveResult.status = "error"
          /\ rpc = "failed"
    /\ retrieveResult.status = "ok" =>
          /\ queryCall.reply = "matches"
          /\ queryCall.outcome.status = "ok"

\* the request was sent and failed
C17_Witness ==
    /\ queryCall.reply = "failed"
    /\ Len(queryRequests) = 1
    /\ queryCall.outcome.status = "error"
    /\ retrieveResult.status = "error"

-----------------------------------------------------------------------------
(* Claims on healthCheck (SpecHealth) *)

\* C16: no healthCheck call throws, whatever the adapter is doing and whether or not
\* it has a client; a call returns true only when its health request succeeded and
\* false whenever the request failed or could not be made.
C16_HealthCheckNeverThrows ==
    \A h \in 1..Len(healthCalls) :
        LET call == healthCalls[h]
        IN /\ call.result.status # "error"
           /\ call.reply = "pending" <=> call.result.status = "none"
           /\ call.result.status = "ok" =>
                 /\ call.result.value \in {"true", "false"}
                 /\ call.result.value = "true" <=> call.reply = "ok"
           /\ ~config.storeClient => call.reply = "noclient"

\* polled without a client while retrieve is failing for the same reason
C16_Witness ==
    /\ ~config.storeClient
    /\ rpc = "failed"
    /\ Len(healthCalls) = 2
    /\ healthCalls[2].reply = "noclient"
    /\ healthCalls[2].result.status = "ok"
    /\ healthCalls[2].result.value = "false"

-----------------------------------------------------------------------------
(* Claims on MedicalRecordsService (SpecRecords) *)

\* the row create saved: not encrypted, no chunk ids
SavedRecord == [id |-> document.id, isEncrypted |-> FALSE, encryptedChunks |-> Null]

Rows == {medicalRecordRepository[r] : r \in 1..Len(medicalRecordRepository)}

\* remove has deleted the row
RowRemoved == removePc \in {"logging", "done"}

\* C21: create returns the record it saved as soon as the ingestion is started,
\* without waiting for it; when the ingestion fails, create has returned normally
\* and the saved row is still there (unless remove deleted it), with isEncrypted
\* false and no encryptedChunks.
C21_IngestionFailureLeavesRecord ==
    /\ pc \in {"embedding", "upserting", "done", "failed"}
        => createResult = Returned(SavedRecord)
    /\ ingestResult.status = "error"
        => /\ createResult.status = "ok"
           /\ Rows \subseteq {SavedRecord}
           /\ ~RowRemoved => medicalRecordRepository = <<SavedRecord>>

\* an embedding call failed after create returned; processRecordAsync caught it
C21_Witness ==
    /\ createResult.status = "ok"
    /\ FailedCalls # {}
    /\ ingestResult.status = "error"
    /\ processPc = "caught"
    /\ medicalRecordRepository = <<SavedRecord>>

\* C27: once remove has returned, the vector store holds no record of the document
\* and the row is not in the repository, however remove interleaved with the
\* processRecordAsync that create started.
C27_RemovedRecordStaysRemoved ==
    removePc = "done"
        => /\ vectorStore = {}
           /\ medicalRecordRepository = <<>>

\* C29: a row is saved with isEncrypted true only when ingestDocument has returned,
\* and its encryptedChunks is then the id list ingestDocument returned; the
\* MEDICAL_RECORD_ENCRYPTED entry is written only after that save, with the
\* number of those ids.
C29_EncryptedOnlyAfterIngestion ==
    /\ \A row \in Rows :
          row.isEncrypted
              => /\ ingestResult.status = "ok"
                 /\ row.encryptedChunks = IdList(ingestResult.value)
    /\ \A e \in 1..Len(auditLog) :
          auditLog[e].action = "MEDICAL_RECORD_ENCRYPTED"
              => /\ ingestResult.status = "ok"
                 /\ auditLog[e].chunkCount = Len(ingestResult.value)
                 /\ ~RowRemoved
                      => /\ Len(medicalRecordRepository) = 1
                         /\ medicalRecordRepository[1].isEncrypted

\* two chunks ingested, the row saved with their ids, the entry written
C29_Witness ==
    /\ processPc = "done"
    /\ Len(ingestResult.value) = 2
    /\ medicalRecordRepository =
          <<[id |-> document.id, isEncrypted |-> TRUE,
             encryptedChunks |-> IdList(<<ChunkId(document.id, 0), ChunkId(document.id, 1)>>)]>>
    /\ auditLog[Len(auditLog)].action = "MEDICAL_RECORD_ENCRYPTED"

-----------------------------------------------------------------------------
(* Claims on ChatGateway and ChatService (SpecChat) *)

\* C22: once the client has disconnected, nothing more of its request is started: no
\* store query is sent, no request goes to the chat model, nothing more is yielded.
C22_DisconnectStopsThePipeline ==
    disconnect.happened
        => /\ Len(queryRequests) = disconnect.queries
           /\ Len(generatorRequests) = disconnect.generations
           /\ Len(yielded) = disconnect.yields

\* the payloads the store returned in its matches
StoredPayloads ==
    {queryResults[m].metadata.encryptedData : m \in 1..Len(queryResults)}

NoPayloadIn(metadata) ==
    /\ metadata.encryptedData = Undefined
    /\ metadata.encryptedData \notin StoredPayloads

\* C25: no result retrieve returns and no source of the ChatResponse chat returns
\* (and the gateway emits) has the encrypted payload of its match in its metadata.
C25_NoPayloadInResults ==
    /\ retrieveResult.status = "ok"
        => \A i \in 1..Len(retrieveResult.value) :
              NoPayloadIn(retrieveResult.value[i].metadata)
    /\ (handler = "chat:message" /\ chatResult.status = "ok")
        => /\ Len(chatResult.value.sources) = Len(retrieveResult.value)
           /\ \A i \in 1..Len(chatResult.value.sources) :
                 NoPayloadIn(chatResult.value.sources[i].metadata)
           /\ emitted = <<Event("chat:response", chatResult.value)>>

\* chat returned two sources for three matches that carried payloads
C25_Witness ==
    /\ handler = "chat:message"
    /\ chatResult.status = "ok"
    /\ Len(queryResults) = 3
    /\ Cardinality(StoredPayloads) = 3
    /\ Len(chatResult.value.sources) = 2

\* C26: when retrieve fails, no request is sent to the chat model, nothing is
\* yielded, no answer and no chunk is emitted, and the request ends in failure
\* with chat:error.
C26_RetrieveFailureEndsRequest ==
    retrieveResult.status = "error"
        => /\ generatorRequests = <<>>
           /\ yielded = <<>>
           /\ \A e \in 1..Len(emitted) : emitted[e].event = "chat:error"
           /\ chatPc \in {"retrieving", "failed"}
           /\ chatPc = "failed"
                => /\ chatResult.status = "error"
                   /\ Len(emitted) = 1
                   /\ emitted[1].payload.message = chatResult.error

\* the store query of a chat:stream request failed and the request has ended
C26_Witness ==
    /\ handler = "chat:stream"
    /\ queryCall.reply = "failed"
    /\ retrieveResult.status = "error"
    /\ chatPc = "failed"
    /\ Len(emitted) = 1

\* C30: for a chat:stream request, the events emitted are one chat:stream:chunk per
\* value streamChat yielded, in the order yielded, then - once the request has
\* ended - exactly one of chat:stream:end and chat:error, and nothing after it.
C30_ChunksInOrderThenOneTerminal ==
    handler = "chat:stream"
        => LET n == Len(yielded)
               ended == chatPc \in {"done", "failed"}
           IN /\ Len(emitted) = n + (IF ended THEN 1 ELSE 0)
              /\ \A i \in 1..n :
                    /\ emitted[i].event = "chat:stream:chunk"
                    /\ emitted[i].payload.chunk = yielded[i]
              /\ ended => emitted[n + 1].event =
                              (IF chatResult.status = "ok" THEN "chat:stream:end"
                               ELSE "chat:error")

\* two different chunks were streamed and the stream ended normally
C30_Witness ==
    /\ handler = "chat:stream"
    /\ chatPc = "done"
    /\ yielded = <<<<"x">>, <<"y">>>>
    /\ Len(emitted) = 3
    /\ emitted[3].event = "chat:stream:end"

-----------------------------------------------------------------------------
(* Claims on re-ingestion (SpecReingest) *)

IdsOf(body) == [i \in 1..Len(body.vectors) |-> body.vectors[i].id]

\* C11: an ingestDocument call that succeeds on n chunks returns the n identifiers
\* document.id "_chunk_" i for i = 0..n-1 in chunk order, identifier i being the id of
\* the record built from chunk i; a second call with the same document returns the
\* same list and upserts records under the same ids.
C11_DeterministicChunkIds ==
    ingestResult.status = "ok" =>
        LET ids == ingestResult.value
            body == upsertRequests[Len(upsertRequests)]
        IN /\ Len(ids) = Len(chunks)
           /\ Len(body.vectors) = Len(chunks)
           /\ \A i \in 1..Len(chunks) :
                 /\ ids[i] = document.id \o "_chunk_" \o ToString(i - 1)
                 /\ body.vectors[i].id = ids[i]
                 /\ body.vectors[i].metadata.chunkIndex = i - 1
                 /\ body.vectors[i].metadata.chunkText = chunks[i].text
           /\ firstIngest.status = "ok" =>
                 /\ ids = firstIngest.value.ids
                 /\ Len(upsertRequests) = 2
                 /\ IdsOf(upsertRequests[2]) = IdsOf(upsertRequests[1])

C11_Witness ==
    /\ firstIngest.status = "ok"
    /\ ingestResult.status = "ok"
    /\ Len(chunks) >= 2
    /\ Len(ingestResult.value) = Len(chunks)
    /\ Len(upsertRequests) = 2

-----------------------------------------------------------------------------
(* Claims on retrieve (SpecRetrieve) *)

RetrieveReturned == rpc = "done" /\ retrieveResult.status = "ok"

\* position (from 1) in queryResults of the result with this id, 0 if none
PositionOf(id) ==
    IF \E i \in 1..Len(queryResults) : queryResults[i].id = id
    THEN CHOOSE i \in 1..Len(queryResults) : queryResults[i].id = id
    ELSE 0

\* C5: retrieve returns exactly the matches whose score is greater than or equal to
\* the configured similarityThreshold, and never one whose score is below it.
C5_ExactlyTheMatchesAtOrAboveThreshold ==
    RetrieveReturned =>
        LET out == retrieveResult.value
        IN /\ \A m \in 1..Len(out) :
                 out[m].score.defined /\ out[m].score.h >= config.similarityThreshold
           /\ \A i \in 1..Len(queryResults) :
                 (queryResults[i].score.defined
                    /\ queryResults[i].score.h >= config.similarityThreshold)
                 <=> (\E m \in 1..Len(out) :
                        /\ out[m].id = queryResults[i].id
                        /\ out[m].score = queryResults[i].score
                        /\ out[m].content = queryResults[i].metadata.chunkText)
           /\ Len(out) = Cardinality({i \in 1..Len(queryResults) :
                 queryResults[i].score.defined
                   /\ queryResults[i].score.h >= config.similarityThreshold})

\* scores [0.9, 0.75, 0.5] with threshold 0.7 give exactly two results
C5_Witness ==
    /\ RetrieveReturned
    /\ config.similarityThreshold = 70
    /\ [i \in 1..Len(queryResults) |-> queryResults[i].score]
          = <<Score(90), Score(75), Score(50)>>
    /\ Len(retrieveResult.value) = 2
    /\ retrieveResult.value[1].score = Score(90)
    /\ retrieveResult.value[2].score = Score(75)

\* C6: what retrieve returns is a subsequence of what CyborgDbService.query returned:
\* every result comes from a query result, none twice, and the results keep the
\* relative order the store gave them.
C6_SubsequenceOfStoreOrder ==
    RetrieveReturned =>
        LET out == retrieveResult.value
        IN /\ \A m \in 1..Len(out) :
                 /\ PositionOf(out[m].id) # 0
                 /\ out[m].score = queryResults[PositionOf(out[m].id)].score
           /\ \A m1, m2 \in 1..Len(out) :
                 m1 < m2 => PositionOf(out[m1].id) < PositionOf(out[m2].id)

\* the store answered in an order that is not by descending score
C6_Witness ==
    /\ RetrieveReturned
    /\ Len(retrieveResult.value) = 2
    /\ Len(queryResults) = 3
    /\ retrieveResult.value[1].score = Score(75)
    /\ retrieveResult.value[2].score = Score(90)

====
